---------------------------- MODULE Spec2Model ----------------------------
(***************************************************************************)
(* A model of the deterministic linear gauge library (src/gauge.py).       *)
(*                                                                         *)
(* Numbers.  The library computes with Python floats.  The model computes  *)
(* with exact rationals <<n, d>> in lowest terms (d > 0), and with the two *)
(* infinities <<1, 0>> and <<-1, 0>>, so that comparisons, sums, products  *)
(* and quotients are those of the reals; rounding is not modelled.         *)
(***************************************************************************)
EXTENDS Integers, Sequences, FiniteSets, TLC

\* `name = e; ...`: what follows sees the value of e under one name
With(e, F(_)) == F(e)

(***************************************************************************)
(* Rational arithmetic                                                     *)
(***************************************************************************)
Abs(n) == IF n < 0 THEN -n ELSE n

Sign(n) == IF n < 0 THEN -1 ELSE IF n > 0 THEN 1 ELSE 0

RECURSIVE GCD(_, _)
GCD(a, b) == IF b = 0 THEN a ELSE GCD(b, a % b)

\* the normal form of n/d; n/0 is an infinity (0/0 is the not-a-number <<0, 0>>)
RNorm(n, d) ==
    IF d = 0 THEN <<Sign(n), 0>>
    ELSE LET g == GCD(Abs(n), Abs(d))
             s == Sign(d)
         IN <<(s * n) \div g, (s * d) \div g>>

R(n) == <<n, 1>>

\* inf = float('inf')
inf == <<1, 0>>

NegInf == <<-1, 0>>

IsFinite(a) == a[2] # 0

RLt(a, b) ==
    IF a[2] = 0 /\ b[2] = 0 THEN a[1] < b[1]
    ELSE a[1] * b[2] < b[1] * a[2]

RLe(a, b) == a = b \/ RLt(a, b)

RAdd(a, b) == RNorm(a[1] * b[2] + b[1] * a[2], a[2] * b[2])

RSub(a, b) == RNorm(a[1] * b[2] - b[1] * a[2], a[2] * b[2])

RMul(a, b) == RNorm(a[1] * b[1], a[2] * b[2])

\* a / b for b # 0
RDiv(a, b) == RNorm(a[1] * b[2], a[2] * b[1])

\* Python's max(a, b) and min(a, b): the first argument when they are equal
RMax(a, b) == IF RLt(a, b) THEN b ELSE a

RMin(a, b) == IF RLt(b, a) THEN b ELSE a

\* indices of a (time, value) point; Python's 0 and 1 are TLA+'s 1 and 2
TIME == 1

VALUE == 2

\* events
ADD == 1

REMOVE == -1

\* what a raised ValueError leaves in place of a number, and of a point
Failure == <<0, -1>>

NoPoint == <<Failure, Failure>>

(***************************************************************************)
(* Lines: Horizon, Ray, Segment                                            *)
(***************************************************************************)
Horizon(since, until, value) ==
    [kind |-> "horizon", since |-> since, until |-> until, value |-> value,
     final |-> value, velocity |-> R(0)]

Ray(since, until, value, velocity) ==
    [kind |-> "ray", since |-> since, until |-> until, value |-> value,
     final |-> value, velocity |-> velocity]

\* Segment.velocity is (final - value) / (until - since)
Segment(since, until, value, final) ==
    [kind |-> "segment", since |-> since, until |-> until, value |-> value,
     final |-> final,
     velocity |-> RDiv(RSub(final, value), RSub(until, since))]

\* a faulty _get: the value at the start of the line, whatever the time
LineGetInStart(l, at) == l.value

\* Horizon._get, Ray._get, Segment._get
LineGetIn(l, at) ==
    IF l.kind = "horizon" THEN l.value
    ELSE IF l.kind = "ray" THEN RAdd(l.value, RMul(l.velocity, RSub(at, l.since)))
    ELSE IF at = l.since THEN l.value
    ELSE IF at = l.until THEN l.final
    ELSE RAdd(l.value,
              RMul(RDiv(RSub(at, l.since), RSub(l.until, l.since)),
                   RSub(l.final, l.value)))

\* Line.get: raises when at is out of the time range
LineGet(l, at) ==
    IF RLe(l.since, at) /\ RLe(at, l.until) THEN LineGetIn(l, at) ELSE Failure

\* Line.guess: constant outside the time range
LineGuess(l, at) ==
    IF RLt(at, l.since) THEN l.value
    ELSE IF RLt(l.until, at)
         THEN (IF l.kind = "horizon" THEN l.value
               ELSE IF l.kind = "segment" THEN l.final
               ELSE LineGetIn(l, l.until))
         ELSE LineGet(l, at)

\* a faulty intercept: the value at `since` is taken for the value at 0
InterceptAtSince(l) == l.value

\* Line.intercept
Intercept(l) == RSub(l.value, RMul(l.velocity, l.since))

\* Line.intersect: the point, or NoPoint when a ValueError is raised
Intersect(a, b) ==
    With(RSub(a.velocity, b.velocity), LAMBDA velocity_delta :
    IF velocity_delta = R(0) THEN NoPoint
    ELSE With(RDiv(RSub(Intercept(b), Intercept(a)), velocity_delta), LAMBDA time :
         IF RLe(RMax(a.since, b.since), time) /\ RLe(time, RMin(a.until, b.until))
         THEN <<time, LineGet(a, time)>>
         ELSE NoPoint))

(***************************************************************************)
(* Boundary: the comparison polarity of the ceiling ("lt") and of the      *)
(* floor ("gt")                                                            *)
(***************************************************************************)
Cmp(c, x, y) == IF c = "lt" THEN RLt(x, y) ELSE RLt(y, x)

Best(c, x, y) == IF c = "lt" THEN RMin(x, y) ELSE RMax(x, y)

CmpEq(c, x, y) == x = y \/ Cmp(c, x, y)

\* lines 497-498: the ceiling compares with operator.lt, the floor with
\* operator.gt
CmpOf(b) == IF b = "ceil" THEN "lt" ELSE "gt"

\* a faulty sum: a velocity held more than once is counted once
RECURSIVE SumDistinct(_)
SumDistinct(s) ==
    IF s = <<>> THEN <<0, 1>>
    ELSE IF \E i \in 2..Len(s) : s[i] = s[1] THEN SumDistinct(Tail(s))
    ELSE RAdd(Head(s), SumDistinct(Tail(s)))

RECURSIVE SumSeq(_)
SumSeq(s) == IF s = <<>> THEN R(0) ELSE RAdd(Head(s), SumSeq(Tail(s)))

\* a faulty sum: every velocity counts, also those that lead away from the
\* bound
SumEvery(c, s) == SumSeq(s)

\* sum(v for v in velocities if bound.cmp(v, 0))
RECURSIVE SumToward(_, _)
SumToward(c, s) ==
    IF s = <<>> THEN R(0)
    ELSE IF Cmp(c, Head(s), R(0)) THEN RAdd(Head(s), SumToward(c, Tail(s)))
    ELSE SumToward(c, Tail(s))

\* a faulty list.remove(x): the list without any x
RemoveAll(s, x) == SelectSeq(s, LAMBDA y : y # x)

\* list.remove(x): the list without the first x
RECURSIVE RemoveFirst(_, _)
RemoveFirst(s, x) ==
    IF s = <<>> THEN <<>>
    ELSE IF Head(s) = x THEN Tail(s)
    ELSE <<Head(s)>> \o RemoveFirst(Tail(s), x)

Contains(s, x) == \E i \in 1..Len(s) : s[i] = x

(***************************************************************************)
(* Gauge.walk_lines: the lines of a limit, seen from base time t0.  det is *)
(* the determination of the limiting gauge (unused for a number).          *)
(***************************************************************************)
\* a faulty walk_lines: a gauge is taken for a number
WalkLinesAsNumber(isGauge, number, det, t0) == <<Horizon(t0, inf, number)>>

WalkLines(isGauge, number, det, t0) ==
    IF isGauge
    THEN LET first == det[1]
             last == det[Len(det)]
             lead == IF RLt(t0, first[TIME])
                     THEN <<Horizon(t0, first[TIME], first[VALUE])>>
                     ELSE <<>>
             segs == [i \in 1..(Len(det) - 1) |->
                        Segment(det[i][TIME], det[i + 1][TIME],
                                det[i][VALUE], det[i + 1][VALUE])]
         IN lead \o segs \o <<Horizon(last[TIME], inf, last[VALUE])>>
    ELSE <<Horizon(t0, inf, number)>>

(***************************************************************************)
(* Gauge.determine.  The generator is run as a machine over a record s:    *)
(* the local variables of determine(), the position of each boundary in    *)
(* its lines (ci, fi), the position in the events (ei), the vertices       *)
(* yielded so far (out) and a program counter                              *)
(*   "event"  at the head of `for ... in self.walk_events()`,              *)
(*   "inner"  at the head of `while since < until`,                        *)
(*   "after"  behind the while loop,                                       *)
(*   "done"   the generator has returned,                                  *)
(*   "error"  an exception has left the generator.                         *)
(* The context c holds what determine() reads and never changes: the base  *)
(* time t0, the events walk_events yields (sentinels included) and the     *)
(* lines of the two boundaries.                                            *)
(***************************************************************************)
BoundaryLine(c, s, b) == IF b = "ceil" THEN c.ceil[s.ci] ELSE c.floor[s.fi]

\* `while boundary.line.until <= since: boundary.walk()`
RECURSIVE SkipPast(_, _, _)
SkipPast(lines, i, since) ==
    IF i < Len(lines) /\ RLe(lines[i].until, since)
    THEN SkipPast(lines, i + 1, since)
    ELSE i

\* lines 493-509: the local variables before the first event
DetermineStart(c, value) ==
    LET ci == SkipPast(c.ceil, 1, c.t0)
        fi == SkipPast(c.floor, 1, c.t0)
        over == Cmp("lt", LineGuess(c.ceil[ci], c.t0), value)
        under == Cmp("gt", LineGuess(c.floor[fi], c.t0), value)
    IN [pc |-> "event", since |-> c.t0, value |-> value, velocity |-> R(0),
        velocities |-> <<>>,
        bound |-> IF over THEN "ceil" ELSE IF under THEN "floor" ELSE "none",
        overlapped |-> FALSE, ci |-> ci, fi |-> fi, again |-> TRUE,
        ei |-> 1, until |-> c.t0, out |-> <<>>]

\* lines 510-515: take the next event
TakeEvent(c, s) ==
    IF s.ei > Len(c.events) THEN [s EXCEPT !.pc = "done"]
    ELSE [s EXCEPT !.until = RMax(c.events[s.ei][1], c.t0),
                   !.again = TRUE, !.pc = "inner"]

\* a faulty determine(): the velocity of an ADD event is not kept, so that
\* velocities.remove raises at the REMOVE event
AfterEventWithoutAdd(c, s) ==
    IF s.until = inf THEN [s EXCEPT !.pc = "done"]
    ELSE With(RAdd(s.value, RMul(s.velocity, RSub(s.until, s.since))), LAMBDA value :
         LET method == c.events[s.ei][2]
             v == c.events[s.ei][3][1]
             gone == method = REMOVE /\ ~Contains(s.velocities, v)
         IN [s EXCEPT !.value = value,
                      !.out = Append(s.out, <<s.until, value>>),
                      !.velocities = IF method = REMOVE THEN RemoveFirst(@, v) ELSE @,
                      !.since = s.until,
                      !.ei = IF gone THEN @ ELSE @ + 1,
                      !.pc = IF gone THEN "error" ELSE "event"])

\* lines 580-590: the final node of the event, and the event's effect
AfterEvent(c, s) ==
    IF s.until = inf THEN [s EXCEPT !.pc = "done"]
    ELSE With(RAdd(s.value, RMul(s.velocity, RSub(s.until, s.since))), LAMBDA value :
         LET method == c.events[s.ei][2]
             v == c.events[s.ei][3][1]
             gone == method = REMOVE /\ ~Contains(s.velocities, v)
         IN [s EXCEPT !.value = value,
                      !.out = Append(s.out, <<s.until, value>>),
                      !.velocities = IF method = ADD THEN Append(@, v)
                                     ELSE IF method = REMOVE THEN RemoveFirst(@, v)
                                     ELSE @,
                      !.since = s.until,
                      !.ei = IF gone THEN @ ELSE @ + 1,
                      !.pc = IF gone THEN "error" ELSE "event"])

\* lines 550-564: the first walked boundary the current line intersects
\* later than `since`; 0 when there is none
RECURSIVE FirstHit(_, _, _, _, _)
FirstHit(c, s, line, walked, i) ==
    IF i > Len(walked) THEN 0
    ELSE With(Intersect(line, BoundaryLine(c, s, walked[i])), LAMBDA p :
         IF p = NoPoint \/ p[TIME] = s.since
         THEN FirstHit(c, s, line, walked, i + 1)
         ELSE i)

\* lines 567-579: the first walked boundary the current line has passed at
\* the end of the boundary's line; 0 when there is none, -1 when
\* boundary.line.get raises first
RECURSIVE FirstMiss(_, _, _, _, _)
FirstMiss(c, s, line, walked, i) ==
    IF i > Len(walked) THEN 0
    ELSE LET bl == BoundaryLine(c, s, walked[i])
             bound_until == RMin(bl.until, s.until)
         IN IF bound_until = inf \/ RLt(bound_until, s.since)
            THEN FirstMiss(c, s, line, walked, i + 1)
            ELSE With(LineGet(bl, bound_until), LAMBDA boundary_value :
                 IF boundary_value = Failure THEN -1
                 ELSE IF CmpEq(CmpOf(walked[i]), LineGet(line, bound_until),
                               boundary_value)
                 THEN FirstMiss(c, s, line, walked, i + 1)
                 ELSE i)

\* a faulty walk: the line of the gauge is never checked against the boundaries
FreeStepUnbounded(c, s, walked) == s

\* lines 541-579, for a gauge that is not overlapped with its bound
FreeStep(c, s, walked) ==
    With(Ray(s.since, s.until, s.value, s.velocity), LAMBDA line :
    With(FirstHit(c, s, line, walked, 1), LAMBDA h :
    IF h > 0
    THEN With(BoundaryLine(c, s, walked[h]), LAMBDA bl :
         With(Intersect(line, bl), LAMBDA p :
         With(Best(CmpOf(walked[h]), p[VALUE], LineGuess(bl, p[TIME])), LAMBDA value :
         [s EXCEPT !.again = TRUE, !.bound = walked[h],
                   !.overlapped = TRUE, !.since = p[TIME],
                   !.value = value,
                   !.out = Append(s.out, <<p[TIME], value>>)])))
    ELSE IF s.bound # "none" THEN s
    ELSE With(FirstMiss(c, s, line, walked, 1), LAMBDA m :
         IF m = -1 THEN [s EXCEPT !.pc = "error"]
         ELSE IF m > 0
         THEN With(BoundaryLine(c, s, walked[m]), LAMBDA bl :
              With(RMin(bl.until, s.until), LAMBDA bound_until :
              With(LineGet(bl, bound_until), LAMBDA boundary_value :
              [s EXCEPT !.bound = walked[m], !.overlapped = TRUE,
                        !.since = bound_until, !.value = boundary_value,
                        !.out = Append(s.out, <<bound_until, boundary_value>>)])))
         ELSE s)))

\* lines 528-549: the velocity, the release from the bound, and the walk
\* along the bound
VelocityStep(c, s, walked) ==
    With(BoundaryLine(c, s, s.bound), LAMBDA bl :
    With(CmpOf(s.bound), LAMBDA cmp :
    With(IF s.bound = "none" THEN SumSeq(s.velocities)
         ELSE IF s.overlapped THEN Best(cmp, SumSeq(s.velocities), bl.velocity)
         ELSE SumToward(cmp, s.velocities), LAMBDA velocity :
    With([s EXCEPT !.velocity = velocity], LAMBDA s1 :
    IF s.overlapped /\ Cmp(cmp, velocity, bl.velocity)
    THEN [s1 EXCEPT !.bound = "none", !.overlapped = FALSE, !.again = TRUE]
    ELSE IF s.overlapped
    THEN With(RMin(bl.until, s.until), LAMBDA bound_until :
         With(LineGet(bl, bound_until), LAMBDA value :
         IF bound_until = inf THEN [s1 EXCEPT !.pc = "after"]
         ELSE IF value = Failure THEN [s1 EXCEPT !.pc = "error"]
         ELSE [s1 EXCEPT !.since = bound_until, !.value = value,
                         !.out = Append(s.out, <<bound_until, value>>)]))
    ELSE FreeStep(c, s1, walked)))))

\* a faulty determine(): `again` is never reset, so that no boundary is
\* ever walked
InnerStepAgain(c, s) ==
    IF ~RLt(s.since, s.until) THEN [s EXCEPT !.pc = "after"]
    ELSE VelocityStep(c, s, <<"ceil", "floor">>)

\* lines 516-527: one pass of `while since < until`
InnerStep(c, s) ==
    IF ~RLt(s.since, s.until) THEN [s EXCEPT !.pc = "after"]
    ELSE IF s.again
    THEN VelocityStep(c, [s EXCEPT !.again = FALSE], <<"ceil", "floor">>)
    ELSE IF RLe(s.until, c.ceil[s.ci].until) /\ RLe(s.until, c.floor[s.fi].until)
    THEN [s EXCEPT !.pc = "after"]
    ELSE LET b == IF RLe(c.ceil[s.ci].until, c.floor[s.fi].until)
                  THEN "ceil" ELSE "floor"
             s1 == IF b = "ceil" THEN [s EXCEPT !.ci = @ + 1]
                   ELSE [s EXCEPT !.fi = @ + 1]
         IN IF s1.ci > Len(c.ceil) \/ s1.fi > Len(c.floor)
            THEN [s EXCEPT !.pc = "error"]
            ELSE VelocityStep(c, s1, <<b>>)

DetermineStep(c, s) ==
    IF s.pc = "event" THEN TakeEvent(c, s)
    ELSE IF s.pc = "inner" THEN InnerStep(c, s)
    ELSE IF s.pc = "after" THEN AfterEvent(c, s)
    ELSE s

\* the generator run to its end
RECURSIVE DetermineRun(_, _)
DetermineRun(c, s) ==
    IF s.pc \in {"done", "error"} THEN s ELSE DetermineRun(c, DetermineStep(c, s))

\* a faulty determination: every yielded node is kept
KeepAll(out, i, acc) == out

\* lines 80-87: the yielded nodes without those that repeat the time of the
\* node before them
RECURSIVE Dedup(_, _, _)
Dedup(out, i, acc) ==
    IF i > Len(out) THEN acc
    ELSE IF acc # <<>> /\ out[i][TIME] = out[i - 1][TIME]
    THEN Dedup(out, i + 1, acc)
    ELSE Dedup(out, i + 1, Append(acc, out[i]))

(***************************************************************************)
(* The gauges.  A heap h holds the attributes of every gauge, each a       *)
(* function of the gauge: base, momenta (sorted by until), events (the     *)
(* sorted _events), max and min (a number or a gauge), links (the gauges   *)
(* _links refers to) and determination (the cached _determination, valid   *)
(* when the attribute exists).  An operation maps a heap to a record with  *)
(* the heap it leaves (h), whether it raised, and what it returned (ret).  *)
(***************************************************************************)
Number(n) == [isGauge |-> FALSE, gauge |-> "", number |-> n]

GaugeLimit(g) == [isGauge |-> TRUE, gauge |-> g, number |-> R(0)]

NoCache == [valid |-> FALSE, det |-> <<>>]

\* Momentum(velocity, since, until)
Momentum(velocity, since, until) == <<velocity, since, until>>

Velocity(m) == m[1]

Since(m) == m[2]

Until(m) == m[3]

\* Python's order of tuples of numbers: (velocity, since, until)
MomentumLt(a, b) ==
    \/ RLt(a[1], b[1])
    \/ a[1] = b[1] /\ RLt(a[2], b[2])
    \/ a[1] = b[1] /\ a[2] = b[2] /\ RLt(a[3], b[3])

\* Python's order of the events (time, method, momentum)
EventLt(a, b) ==
    \/ RLt(a[1], b[1])
    \/ a[1] = b[1] /\ a[2] < b[2]
    \/ a[1] = b[1] /\ a[2] = b[2] /\ MomentumLt(a[3], b[3])

InsertAt(s, i, x) == SubSeq(s, 1, i) \o <<x>> \o SubSeq(s, i + 1, Len(s))

\* SortedListWithKey(key=until).add: behind the items whose until is not later
MomentaAdd(momenta, m) ==
    InsertAt(momenta, Cardinality({i \in 1..Len(momenta) : RLe(Until(momenta[i]), Until(m))}), m)

\* SortedList.add
EventsAdd(events, e) ==
    InsertAt(events, Cardinality({i \in 1..Len(events) : ~EventLt(e, events[i])}), e)

\* `del self.momenta[start:stop]` for 0 <= start, stop <= len
DelSlice(s, start, stop) ==
    IF start >= stop THEN s
    ELSE SubSeq(s, 1, start) \o SubSeq(s, stop + 1, Len(s))

\* the gauges reached from g along the links, g included: those whose cache
\* invalidate() deletes
RECURSIVE Linked(_, _, _)
Linked(links, todo, seen) ==
    IF todo = {} THEN seen
    ELSE LET g == CHOOSE x \in todo : TRUE
         IN Linked(links, (todo \cup (links[g] \ seen)) \ {g}, seen \cup {g})

\* `del self._determination` for each gauge of gone
RECURSIVE DelCaches(_, _)
DelCaches(determination, gone) ==
    IF gone = {} THEN determination
    ELSE LET g == CHOOSE x \in gone : TRUE
         IN DelCaches([determination EXCEPT ![g] = NoCache], gone \ {g})

\* Gauge.invalidate
Invalidate(h, g) ==
    [h EXCEPT !.determination = DelCaches(@, Linked(h.links, {g}, {g}))]

\* Gauge.walk_events: the stored events of the momenta the gauge still holds
RECURSIVE SelectHeld(_, _)
SelectHeld(events, momenta) ==
    IF events = <<>> THEN <<>>
    ELSE IF Contains(momenta, Head(events)[3])
    THEN <<Head(events)>> \o SelectHeld(Tail(events), momenta)
    ELSE SelectHeld(Tail(events), momenta)

Sentinel(time) == <<time, 0, Momentum(R(0), R(0), R(0))>>

WalkEvents(h, g) ==
    <<Sentinel(h.base[g][TIME])>> \o SelectHeld(h.events[g], h.momenta[g])
        \o <<Sentinel(inf)>>

\* what walk_events leaves in _events when determine() has taken k of the
\* stored events it yields: the events no longer held that precede the k-th
\* one are removed (all of them once the last sentinel is yielded)
RECURSIVE PruneEvents(_, _, _)
PruneEvents(events, momenta, k) ==
    IF events = <<>> \/ k = 0 THEN events
    ELSE IF ~Contains(momenta, Head(events)[3])
    THEN PruneEvents(Tail(events), momenta, k)
    ELSE <<Head(events)>> \o PruneEvents(Tail(events), momenta, k - 1)

\* the property Gauge.determination: the cached determination, or determine()
\* run and cached (the determinations of the limits are read first, by
\* walk_lines)
RECURSIVE Determination(_, _)
Determination(h, g) ==
    IF h.determination[g].valid THEN [h |-> h, raised |-> FALSE]
    ELSE With([h EXCEPT !.determination[g] = [valid |-> TRUE, det |-> <<>>]], LAMBDA h0 :
         With(IF h.max[g].isGauge THEN Determination(h0, h.max[g].gauge)
              ELSE [h |-> h0, raised |-> FALSE], LAMBDA r1 :
         With(IF h.max[g].isGauge
              THEN r1.h.determination[h.max[g].gauge].det ELSE <<R(0)>>, LAMBDA maxdet :
         IF r1.raised \/ maxdet = <<>> THEN [h |-> r1.h, raised |-> TRUE]
         ELSE With(IF h.min[g].isGauge THEN Determination(r1.h, h.min[g].gauge)
                   ELSE [h |-> r1.h, raised |-> FALSE], LAMBDA r2 :
              With(IF h.min[g].isGauge
                   THEN r2.h.determination[h.min[g].gauge].det ELSE <<R(0)>>, LAMBDA mindet :
              IF r2.raised \/ mindet = <<>> THEN [h |-> r2.h, raised |-> TRUE]
              ELSE With(h.base[g][TIME], LAMBDA t0 :
                   With([t0 |-> t0, events |-> WalkEvents(h, g),
                         ceil |-> WalkLines(h.max[g].isGauge, h.max[g].number, maxdet, t0),
                         floor |-> WalkLines(h.min[g].isGauge, h.min[g].number, mindet, t0)],
                        LAMBDA c :
                   With(DetermineRun(c, DetermineStart(c, h.base[g][VALUE])), LAMBDA s :
                   [h |-> [r2.h EXCEPT
                            !.determination[g] = [valid |-> TRUE, det |-> Dedup(s.out, 1, <<>>)],
                            !.events[g] = PruneEvents(@, h.momenta[g], s.ei - 1)],
                    raised |-> s.pc = "error"]))))))))

\* bisect_left(determination, (at,)): the number of nodes earlier than at
BisectLeft(det, at) == Cardinality({i \in 1..Len(det) : RLt(det[i][TIME], at)})

\* Gauge._value_and_velocity: ret is <<value, velocity>>
ValueAndVelocity(h, g, at) ==
    With(Determination(h, g), LAMBDA r :
    With(r.h.determination[g].det, LAMBDA det :
    With(IF Len(det) = 1 THEN 0 ELSE BisectLeft(det, at), LAMBDA x :
    IF r.raised \/ det = <<>> THEN [h |-> r.h, raised |-> TRUE, ret |-> NoPoint]
    ELSE IF x = 0 THEN [h |-> r.h, raised |-> FALSE, ret |-> <<det[1][VALUE], R(0)>>]
    ELSE IF x = Len(det)
    THEN [h |-> r.h, raised |-> FALSE, ret |-> <<det[Len(det)][VALUE], R(0)>>]
    ELSE With(Segment(det[x][TIME], det[x + 1][TIME],
                      det[x][VALUE], det[x + 1][VALUE]), LAMBDA seg :
         [h |-> r.h, raised |-> FALSE, ret |-> <<LineGet(seg, at), seg.velocity>>]))))

\* Gauge.get
Get(h, g, at) ==
    With(ValueAndVelocity(h, g, at), LAMBDA r :
    [h |-> r.h, raised |-> r.raised, ret |-> r.ret[1]])

\* Gauge.velocity
VelocityAt(h, g, at) ==
    With(ValueAndVelocity(h, g, at), LAMBDA r :
    [h |-> r.h, raised |-> r.raised, ret |-> r.ret[2]])

\* lines 334-342 of Gauge.whenever: the times at which the segments from the
\* i-th on reach value
RECURSIVE Crossings(_, _, _)
Crossings(det, value, i) ==
    IF i >= Len(det) THEN <<>>
    ELSE With(det[i], LAMBDA node1 :
         With(det[i + 1], LAMBDA node2 :
         IF ~(\/ RLt(node1[VALUE], value) /\ RLe(value, node2[VALUE])
              \/ RLt(value, node1[VALUE]) /\ RLe(node2[VALUE], value))
         THEN Crossings(det, value, i + 1)
         ELSE With(RDiv(RSub(value, node1[VALUE]), RSub(node2[VALUE], node1[VALUE])),
                   LAMBDA ratio :
              <<RAdd(node1[TIME], RMul(RSub(node2[TIME], node1[TIME]), ratio))>>
                  \o Crossings(det, value, i + 1))))

\* Gauge.whenever, run to its end: ret is the sequence of the times yielded
Whenever(h, g, value) ==
    With(Determination(h, g), LAMBDA r :
    With(r.h.determination[g].det, LAMBDA det :
    IF r.raised THEN [h |-> r.h, raised |-> TRUE, ret |-> <<>>]
    ELSE IF det = <<>> THEN [h |-> r.h, raised |-> FALSE, ret |-> <<>>]
    ELSE [h |-> r.h, raised |-> FALSE,
          ret |-> (IF det[1][VALUE] = value THEN <<det[1][TIME]>> ELSE <<>>)
                      \o Crossings(det, value, 1)]))

\* a faulty enumeration: the times are counted from 1
WhenLoopFromOne(times, x, after) ==
    IF after >= 1 /\ after <= Len(times) THEN times[after] ELSE Failure

\* lines 317-320 of Gauge.when: `for x, at in enumerate(...)`, from the x-th
\* time on; Failure when the times end
RECURSIVE WhenLoop(_, _, _)
WhenLoop(times, x, after) ==
    IF x >= Len(times) THEN Failure
    ELSE IF x = after THEN times[x + 1]
    ELSE WhenLoop(times, x + 1, after)

\* Gauge.when
When(h, g, value, after) ==
    With(Whenever(h, g, value), LAMBDA r :
    With(IF r.raised THEN Failure ELSE WhenLoop(r.ret, 0, after), LAMBDA at :
    [h |-> r.h, raised |-> at = Failure, ret |-> at]))

\* Gauge._get_limit
GetLimit(h, limit, at) ==
    IF limit.isGauge THEN Get(h, limit.gauge, at)
    ELSE [h |-> h, raised |-> FALSE, ret |-> limit.number]

\* Gauge.get_max, Gauge.get_min
GetMax(h, g, at) == GetLimit(h, h.max[g], at)

GetMin(h, g, at) == GetLimit(h, h.min[g], at)

\* Gauge._coerce_and_remove_momenta; hasValue is `value is not None`
CoerceAndRemoveMomenta(h, g, hasValue, value, at, start, stop) ==
    With(IF hasValue THEN [h |-> h, raised |-> FALSE, ret |-> value]
         ELSE Get(h, g, at), LAMBDA r :
    IF r.raised THEN r
    ELSE [h |-> Invalidate([r.h EXCEPT !.base[g] = <<at, r.ret>>,
                                       !.momenta[g] = DelSlice(@, start, stop)], g),
          raised |-> FALSE, ret |-> r.ret])

\* a faulty clear_momenta: the momentum of the latest until is kept
ClearMomentaButLast(h, g, hasValue, value, at) ==
    CoerceAndRemoveMomenta(h, g, hasValue, value, at, 0, Len(h.momenta[g]) - 1)

\* Gauge.clear_momenta
ClearMomenta(h, g, hasValue, value, at) ==
    CoerceAndRemoveMomenta(h, g, hasValue, value, at, 0, Len(h.momenta[g]))

\* Gauge.forget_past: start is bisect_right of the key -inf, stop is
\* bisect_left of the key at
ForgetPast(h, g, hasValue, value, at) ==
    LET momenta == h.momenta[g]
        start == Cardinality({i \in 1..Len(momenta) : RLe(Until(momenta[i]), NegInf)})
        stop == Cardinality({i \in 1..Len(momenta) : RLt(Until(momenta[i]), at)})
    IN CoerceAndRemoveMomenta(h, g, hasValue, value, at, start, stop)

\* a faulty incr: without over and clamp, only max is checked
IncrUpperOnly(h, g, delta, over, clamp, at) ==
    With(Get(h, g, at), LAMBDA r0 :
    IF r0.raised THEN r0
    ELSE With(GetMax(r0.h, g, at), LAMBDA r1 :
    IF r1.raised THEN r1
    ELSE LET value == RAdd(r0.ret, delta)
             up == RLt(R(0), delta) /\ RLt(r1.ret, value)
         IN IF ~over /\ ~clamp /\ up
            THEN [h |-> r1.h, raised |-> TRUE, ret |-> Failure]
            ELSE ForgetPast(r1.h, g, TRUE,
                            IF ~over /\ clamp /\ up THEN RMax(r0.ret, r1.ret) ELSE value,
                            at)))

\* a faulty incr: clamp is ignored
IncrUnclamped(h, g, delta, over, clamp, at) ==
    With(Get(h, g, at), LAMBDA r0 :
    IF r0.raised THEN r0
    ELSE ForgetPast(r0.h, g, TRUE, RAdd(r0.ret, delta), at))

\* a faulty incr: clamp saturates at the limit even from a value beyond it
IncrSaturating(h, g, delta, over, clamp, at) ==
    With(Get(h, g, at), LAMBDA r0 :
    IF r0.raised THEN r0
    ELSE With(GetMax(r0.h, g, at), LAMBDA r1 :
    IF r1.raised THEN r1
    ELSE With(GetMin(r1.h, g, at), LAMBDA r2 :
    IF r2.raised THEN r2
    ELSE LET value == RAdd(r0.ret, delta)
             up == RLt(R(0), delta) /\ RLt(r1.ret, value)
             down == RLt(delta, R(0)) /\ RLt(value, r2.ret)
         IN IF ~over /\ ~clamp /\ (up \/ down)
            THEN [h |-> r2.h, raised |-> TRUE, ret |-> Failure]
            ELSE ForgetPast(r2.h, g, TRUE,
                            IF over \/ ~clamp THEN value
                            ELSE IF up THEN r1.ret ELSE IF down THEN r2.ret ELSE value,
                            at))))

\* Gauge.incr
Incr(h, g, delta, over, clamp, at) ==
    With(Get(h, g, at), LAMBDA r0 :
    IF r0.raised THEN r0
    ELSE With(GetMax(r0.h, g, at), LAMBDA r1 :
    IF r1.raised THEN r1
    ELSE With(GetMin(r1.h, g, at), LAMBDA r2 :
    IF r2.raised THEN r2
    ELSE LET prev_value == r0.ret
             value == RAdd(prev_value, delta)
             max_ == r1.ret
             min_ == r2.ret
             up == RLt(R(0), delta) /\ RLt(max_, value)
             down == RLt(delta, R(0)) /\ RLt(value, min_)
             clamped == IF up THEN RMax(prev_value, max_)
                        ELSE IF down THEN RMin(prev_value, min_)
                        ELSE value
         IN IF ~over /\ ~clamp /\ (up \/ down)
            THEN [h |-> r2.h, raised |-> TRUE, ret |-> Failure]
            ELSE ForgetPast(r2.h, g, TRUE,
                            IF over \/ ~clamp THEN value ELSE clamped, at))))

\* Gauge.decr
Decr(h, g, delta, over, clamp, at) == Incr(h, g, RSub(R(0), delta), over, clamp, at)

\* Gauge.set
Set(h, g, value, over, clamp, at) ==
    With(Get(h, g, at), LAMBDA r :
    IF r.raised THEN r
    ELSE Incr(r.h, g, RSub(value, r.ret), over, clamp, at))

\* Gauge._make_momentum: whether the momentum is accepted
MakeMomentum(m) == Since(m) = NegInf \/ Until(m) = inf \/ RLt(Since(m), Until(m))

\* Gauge.add_momentum
AddMomentum(h, g, m) ==
    IF ~MakeMomentum(m) THEN [h |-> h, raised |-> TRUE, ret |-> m]
    ELSE With(EventsAdd(h.events[g], <<Since(m), ADD, m>>), LAMBDA e1 :
         With(IF Until(m) # inf THEN EventsAdd(e1, <<Until(m), REMOVE, m>>) ELSE e1,
              LAMBDA e2 :
         [h |-> Invalidate([h EXCEPT !.momenta[g] = MomentaAdd(@, m),
                                     !.events[g] = e2], g),
          raised |-> FALSE, ret |-> m]))

\* a faulty remove_momentum: the first momentum of the velocity of m is
\* taken for m
RemoveMomentumByVelocity(h, g, m) ==
    LET held == h.momenta[g]
        same == {i \in 1..Len(held) : Velocity(held[i]) = Velocity(m)}
    IN IF ~MakeMomentum(m) \/ same = {}
       THEN [h |-> h, raised |-> TRUE, ret |-> m]
       ELSE [h |-> Invalidate([h EXCEPT !.momenta[g] =
                                   RemoveFirst(@, held[CHOOSE i \in same :
                                                         \A j \in same : i <= j])], g),
             raised |-> FALSE, ret |-> m]

\* Gauge.remove_momentum
RemoveMomentum(h, g, m) ==
    IF ~MakeMomentum(m) \/ ~Contains(h.momenta[g], m)
    THEN [h |-> h, raised |-> TRUE, ret |-> m]
    ELSE [h |-> Invalidate([h EXCEPT !.momenta[g] = RemoveFirst(@, m)], g),
          raised |-> FALSE, ret |-> m]

\* lines 147-162 of Gauge._set_limits for one limit: unlink, link, set
SetLimit(h, g, isMax, limit) ==
    LET prev_limit == IF isMax THEN h.max[g] ELSE h.min[g]
        l1 == IF prev_limit.isGauge
              THEN [h.links EXCEPT ![prev_limit.gauge] = @ \ {g}] ELSE h.links
        l2 == IF limit.isGauge THEN [l1 EXCEPT ![limit.gauge] = @ \cup {g}] ELSE l1
    IN IF isMax THEN [h EXCEPT !.links = l2, !.max[g] = limit]
       ELSE [h EXCEPT !.links = l2, !.min[g] = limit]

\* Gauge._set_limits that clamps whether asked to or not
SetLimitsClamped(h, g, isMax, limit, clamp, at) ==
    With(SetLimit(h, g, isMax, limit), LAMBDA h1 :
    With(Get(h1, g, at), LAMBDA r0 :
    IF r0.raised THEN r0
    ELSE With(GetLimit(r0.h, IF isMax THEN r0.h.max[g] ELSE r0.h.min[g], at), LAMBDA r1 :
    IF r1.raised THEN r1
    ELSE LET value == r0.ret
             max_ == IF isMax THEN r1.ret ELSE value
             min_ == IF isMax THEN value ELSE r1.ret
         IN IF RLt(max_, value) \/ RLt(value, min_)
            THEN ForgetPast(r1.h, g, TRUE, IF RLt(max_, value) THEN max_ ELSE min_, at)
            ELSE [h |-> Invalidate(r1.h, g), raised |-> FALSE, ret |-> Failure])))

\* Gauge._set_limits with one of max and min given (set_max, set_min)
SetLimits(h, g, isMax, limit, clamp, at) ==
    With(SetLimit(h, g, isMax, limit), LAMBDA h1 :
    IF ~clamp THEN [h |-> Invalidate(h1, g), raised |-> FALSE, ret |-> Failure]
    ELSE With(Get(h1, g, at), LAMBDA r0 :
    IF r0.raised THEN r0
    ELSE With(GetLimit(r0.h, IF isMax THEN r0.h.max[g] ELSE r0.h.min[g], at), LAMBDA r1 :
    IF r1.raised THEN r1
    ELSE LET value == r0.ret
             max_ == IF isMax THEN r1.ret ELSE value
             min_ == IF isMax THEN value ELSE r1.ret
         IN IF RLt(max_, value) \/ RLt(value, min_)
            THEN ForgetPast(r1.h, g, TRUE, IF RLt(max_, value) THEN max_ ELSE min_, at)
            ELSE [h |-> Invalidate(r1.h, g), raised |-> FALSE, ret |-> Failure])))

\* Gauge.set_max
SetMax(h, g, limit, clamp, at) == SetLimits(h, g, TRUE, limit, clamp, at)

\* Gauge.set_min
SetMin(h, g, limit, clamp, at) == SetLimits(h, g, FALSE, limit, clamp, at)

\* whether invalidate() of g recurses without end: a gauge reached from g
\* along the links is reached again from itself
Recurses(links, g) ==
    \E x \in Linked(links, {g}, {g}) : x \in Linked(links, links[x], links[x])

\* the outcomes of Gauge.invalidate of g, entered from the gauges of stack,
\* with the links rest still to visit (a set is walked in an order the run
\* chooses) and the caches gone deleted: re-entering a gauge of the stack
\* repeats its walk until RecursionError is raised, and no gauge of the
\* stack reaches `del self._determination`
RECURSIVE InvalidateWalk(_, _, _, _, _)
InvalidateWalk(links, g, stack, rest, gone) ==
    IF rest = {} THEN {[gone |-> gone \cup {g}, raised |-> FALSE]}
    ELSE UNION {
           IF x \in stack \cup {g} THEN {[gone |-> gone, raised |-> TRUE]}
           ELSE UNION {
                  IF o.raised THEN {[gone |-> gone \cup o.gone, raised |-> TRUE]}
                  ELSE InvalidateWalk(links, g, stack, rest \ {x}, gone \cup o.gone) :
                  o \in InvalidateWalk(links, x, stack \cup {g}, links[x], {})} :
           x \in rest}

\* Gauge.invalidate, whatever the links
InvalidateOutcomes(h, g) ==
    {[h |-> [h EXCEPT !.determination = DelCaches(@, o.gone)],
      raised |-> o.raised, ret |-> Failure] :
        o \in InvalidateWalk(h.links, g, {}, h.links[g], {})}

\* Gauge._set_limits with one of max and min given, whatever the limit: the
\* outcome of SetLimits when invalidate() returns, and otherwise the limit
\* and the link are set and the call raises, from the read or from
\* invalidate()
SetLimitsOutcomes(h, g, isMax, limit, clamp, at) ==
    With(SetLimit(h, g, isMax, limit), LAMBDA h1 :
    IF ~Recurses(h1.links, g) THEN {SetLimits(h, g, isMax, limit, clamp, at)}
    ELSE IF ~clamp THEN InvalidateOutcomes(h1, g)
    ELSE With(Get(h1, g, at), LAMBDA r0 :
    IF r0.raised THEN {r0}
    ELSE With(GetLimit(r0.h, limit, at), LAMBDA r1 :
    IF r1.raised THEN {r1}
    ELSE LET value == r0.ret
             max_ == IF isMax THEN r1.ret ELSE value
             min_ == IF isMax THEN value ELSE r1.ret
             forgot == ForgetPast(r1.h, g, TRUE,
                                  IF RLt(max_, value) THEN max_ ELSE min_, at).h
         IN IF RLt(max_, value) \/ RLt(value, min_)
            THEN InvalidateOutcomes(
                     [forgot EXCEPT !.determination = r1.h.determination], g)
            ELSE InvalidateOutcomes(r1.h, g))))

(***************************************************************************)
(* The state: the attributes of the gauges, the last call made and its     *)
(* outcome (last), the number of calls made (ops), the generators of       *)
(* determine() that have not run to their end, innermost last (gen), and   *)
(* the Line objects made outside a determination (lines).                  *)
(***************************************************************************)
VARIABLES base, momenta, events, max, min, links, determination, last, ops, gen,
          lines

vars == <<base, momenta, events, max, min, links, determination, last, ops, gen,
          lines>>

\* the gauges: G, and B, which G may take as a limit
Gauges == {"G", "B"}

\* the heap of the current state, and of the next one
H == [base |-> base, momenta |-> momenta, events |-> events, max |-> max,
      min |-> min, links |-> links, determination |-> determination]

HP == [base |-> base', momenta |-> momenta', events |-> events', max |-> max',
       min |-> min', links |-> links', determination |-> determination']

\* bounds of the model: calls per behaviour, latest time of a call, momenta
\* a gauge is given before the first call
MaxOps == 2

MaxAt == 1

MaxMomenta == 2

Ats == {R(t) : t \in 0..MaxAt}

\* the momenta given to add_momentum and remove_momentum
MomentumSet ==
    {Momentum(R(1), NegInf, inf), Momentum(R(1), R(0), R(2)),
     Momentum(R(-1), R(1), R(3)), Momentum(R(-1), R(0), inf)}

\* a rejected momentum: since = until
BadMomentum == Momentum(R(1), R(1), R(1))

Deltas == {R(2)}

Values == {R(5)}

Numbers == {R(0), R(4)}

\* the limits a gauge may be given: numbers, and for G the gauge B
LimitsOf(g) == {Number(n) : n \in Numbers} \cup (IF g = "G" THEN {GaugeLimit("B")} ELSE {})

\* Gauge.__init__ of B (with numbers as limits) and then of G
NewHeap(vB, maxB, minB, atB, vG, maxG, minG, atG) ==
    [base |-> ("G" :> <<atG, vG>>) @@ ("B" :> <<atB, vB>>),
     momenta |-> ("G" :> <<>>) @@ ("B" :> <<>>),
     events |-> ("G" :> <<>>) @@ ("B" :> <<>>),
     max |-> ("G" :> maxG) @@ ("B" :> maxB),
     min |-> ("G" :> minG) @@ ("B" :> minB),
     links |-> ("G" :> {}) @@
               ("B" :> IF maxG = GaugeLimit("B") \/ minG = GaugeLimit("B")
                       THEN {"G"} ELSE {}),
     determination |-> ("G" :> NoCache) @@ ("B" :> NoCache)]

NoCall == [op |-> "new", g |-> "G", at |-> R(0), x |-> R(0), over |-> FALSE,
           clamp |-> FALSE, m |-> BadMomentum, limit |-> Number(R(0)), after |-> 0,
           given |-> FALSE, self |-> 0, line |-> 0, raised |-> FALSE, ret |-> R(0)]

\* the next state is what the call leaves; last records the call, whether it
\* raised and what it returned
Becomes(r, call) ==
    /\ base' = r.h.base
    /\ momenta' = r.h.momenta
    /\ events' = r.h.events
    /\ max' = r.h.max
    /\ min' = r.h.min
    /\ links' = r.h.links
    /\ determination' = r.h.determination
    /\ last' = [call EXCEPT !.raised = r.raised,
                           !.ret = IF "ret" \in DOMAIN r THEN r.ret ELSE Failure]
    /\ ops' = ops + 1
    /\ gen' = gen
    /\ lines' = lines

StartsAs(h) ==
    /\ base = h.base
    /\ momenta = h.momenta
    /\ events = h.events
    /\ max = h.max
    /\ min = h.min
    /\ links = h.links
    /\ determination = h.determination
    /\ last = NoCall
    /\ ops = 0
    /\ gen = <<>>
    /\ lines = <<>>

\* B = Gauge(1, 4, 0, at=0); G = Gauge(vG, maxG, minG, at=0)
Init ==
    \E vG \in {R(1), R(6)}, maxG \in LimitsOf("G"), minG \in LimitsOf("G") :
        StartsAs(NewHeap(R(1), Number(R(4)), Number(R(0)), R(0), vG, maxG, minG, R(0)))

DoDetermination(g) ==
    Becomes(Determination(H, g), [NoCall EXCEPT !.op = "determination", !.g = g])

DoGet(g, at) ==
    Becomes(Get(H, g, at), [NoCall EXCEPT !.op = "get", !.g = g, !.at = at])

DoVelocity(g, at) ==
    Becomes(VelocityAt(H, g, at), [NoCall EXCEPT !.op = "velocity", !.g = g, !.at = at])

DoWhenever(g, value) ==
    Becomes(Whenever(H, g, value), [NoCall EXCEPT !.op = "whenever", !.g = g, !.x = value])

DoWhen(g, value, after) ==
    Becomes(When(H, g, value, after),
            [NoCall EXCEPT !.op = "when", !.g = g, !.x = value, !.after = after])

DoAddMomentum(g, m) ==
    Becomes(AddMomentum(H, g, m), [NoCall EXCEPT !.op = "add_momentum", !.g = g, !.m = m])

DoRemoveMomentum(g, m) ==
    Becomes(RemoveMomentum(H, g, m),
            [NoCall EXCEPT !.op = "remove_momentum", !.g = g, !.m = m])

DoSetMax(g, limit, clamp, at) ==
    \E r \in SetLimitsOutcomes(H, g, TRUE, limit, clamp, at) :
        Becomes(r, [NoCall EXCEPT !.op = "set_max", !.g = g, !.limit = limit,
                                  !.clamp = clamp, !.at = at])

DoSetMin(g, limit, clamp, at) ==
    \E r \in SetLimitsOutcomes(H, g, FALSE, limit, clamp, at) :
        Becomes(r, [NoCall EXCEPT !.op = "set_min", !.g = g, !.limit = limit,
                                  !.clamp = clamp, !.at = at])

DoIncr(g, delta, over, clamp, at) ==
    Becomes(Incr(H, g, delta, over, clamp, at),
            [NoCall EXCEPT !.op = "incr", !.g = g, !.x = delta, !.over = over,
                           !.clamp = clamp, !.at = at])

DoDecr(g, delta, over, clamp, at) ==
    Becomes(Decr(H, g, delta, over, clamp, at),
            [NoCall EXCEPT !.op = "decr", !.g = g, !.x = delta, !.over = over,
                           !.clamp = clamp, !.at = at])

DoSet(g, value, over, clamp, at) ==
    Becomes(Set(H, g, value, over, clamp, at),
            [NoCall EXCEPT !.op = "set", !.g = g, !.x = value, !.over = over,
                           !.clamp = clamp, !.at = at])

DoClearMomenta(g, at) ==
    Becomes(ClearMomenta(H, g, FALSE, R(0), at),
            [NoCall EXCEPT !.op = "clear_momenta", !.g = g, !.at = at])

DoForgetPast(g, at) ==
    Becomes(ForgetPast(H, g, FALSE, R(0), at),
            [NoCall EXCEPT !.op = "forget_past", !.g = g, !.at = at])

\* clear_momenta with the value given
DoClearMomentaTo(g, value, at) ==
    Becomes(ClearMomenta(H, g, TRUE, value, at),
            [NoCall EXCEPT !.op = "clear_momenta", !.g = g, !.x = value,
                           !.given = TRUE, !.at = at])

\* forget_past with the value given
DoForgetPastTo(g, value, at) ==
    Becomes(ForgetPast(H, g, TRUE, value, at),
            [NoCall EXCEPT !.op = "forget_past", !.g = g, !.x = value,
                           !.given = TRUE, !.at = at])

Next ==
    \/ \E g \in Gauges : ops < MaxOps /\ DoDetermination(g)
    \/ \E g \in Gauges, at \in Ats : ops < MaxOps /\ DoGet(g, at)
    \/ \E g \in Gauges, m \in MomentumSet \cup {BadMomentum} :
          ops < MaxOps /\ DoAddMomentum(g, m)
    \/ \E g \in Gauges, m \in MomentumSet : ops < MaxOps /\ DoRemoveMomentum(g, m)
    \/ \E g \in Gauges : \E limit \in LimitsOf(g), clamp \in BOOLEAN, at \in Ats :
          ops < MaxOps /\ DoSetMax(g, limit, clamp, at)
    \/ \E g \in Gauges : \E limit \in LimitsOf(g), clamp \in BOOLEAN, at \in Ats :
          ops < MaxOps /\ DoSetMin(g, limit, clamp, at)
    \/ \E g \in Gauges, delta \in Deltas, over \in BOOLEAN, clamp \in BOOLEAN, at \in Ats :
          ops < MaxOps /\ DoIncr(g, delta, over, clamp, at)
    \/ \E g \in Gauges, delta \in Deltas, over \in BOOLEAN, clamp \in BOOLEAN, at \in Ats :
          ops < MaxOps /\ DoDecr(g, delta, over, clamp, at)
    \/ \E g \in Gauges, value \in Values, over \in BOOLEAN, clamp \in BOOLEAN, at \in Ats :
          ops < MaxOps /\ DoSet(g, value, over, clamp, at)
    \/ \E g \in Gauges, at \in Ats : ops < MaxOps /\ DoClearMomenta(g, at)
    \/ \E g \in Gauges, at \in Ats : ops < MaxOps /\ DoForgetPast(g, at)

\* every operation of a gauge, on gauges that start without momenta
Spec == Init /\ [][Next]_vars

(***************************************************************************)
(* Determinations: gauges built with momenta, then read.                   *)
(***************************************************************************)
\* reads per behaviour
MaxReads == 1

\* the momenta B is given: the last one has since = until = -inf, which
\* _make_momentum accepts
BoundMomenta ==
    <<Momentum(R(1), R(0), R(2)), Momentum(R(-2), R(0), inf),
      Momentum(R(1), NegInf, NegInf)>>

\* the momenta G is given
GaugeMomenta ==
    <<Momentum(R(1), NegInf, inf), Momentum(R(1), R(0), R(2)),
      Momentum(R(-1), R(1), R(3)), Momentum(R(-1), R(0), inf)>>

\* the multisets of at most k of the momenta ms, each as a sequence
Multisets(ms, k) ==
    {[i \in DOMAIN s |-> ms[s[i]]] :
        s \in UNION {{f \in [1..n -> 1..Len(ms)] : \A i \in 1..(n - 1) : f[i] <= f[i + 1]} :
                       n \in 0..k}}

\* add_momentum for each momentum of ms in turn
RECURSIVE AddAll(_, _, _)
AddAll(h, g, ms) ==
    IF ms = <<>> THEN h ELSE AddAll(AddMomentum(h, g, Head(ms)).h, g, Tail(ms))

\* B = Gauge(vB, 4, 0, at=0) and G = Gauge(vG, maxG, minG, at=atG), each with
\* its momenta added
InitDet ==
    \E vB \in {R(1), R(4)}, vG \in {R(1), R(4), R(6)},
       maxG \in {Number(R(4)), GaugeLimit("B")}, minG \in {Number(R(0)), GaugeLimit("B")},
       atG \in {R(0), R(2)},
       msB \in Multisets(BoundMomenta, MaxMomenta),
       msG \in Multisets(GaugeMomenta, MaxMomenta) :
        StartsAs(AddAll(AddAll(NewHeap(vB, Number(R(4)), Number(R(0)), R(0),
                                       vG, maxG, minG, atG), "B", msB), "G", msG))

NextDet ==
    \/ \E g \in Gauges : ops < MaxReads /\ DoDetermination(g)
    \/ \E g \in Gauges, at \in Ats : ops < MaxReads /\ DoGet(g, at)

SpecDet == InitDet /\ [][NextDet]_vars

(***************************************************************************)
(* Properties of the determination                                         *)
(***************************************************************************)
\* the cached determination of g
Det(g) == determination[g].det

\* the times of the vertices of a determination
Times(det) == {det[i][TIME] : i \in 1..Len(det)}

Within(lo, x, hi) == RLe(lo, x) /\ RLe(x, hi)

\* g has numbers as limits, min <= max, and its base value lies between them
ScalarInRange(g) ==
    /\ ~max[g].isGauge
    /\ ~min[g].isGauge
    /\ Within(min[g].number, base[g][VALUE], max[g].number)

\* C1: a gauge with scalar bounds min <= max whose base value lies in
\* [min, max] has every vertex of its determination in [min, max], whatever
\* its momenta, and every value get returns lies in [min, max]
C1_ScalarRange ==
    \A g \in Gauges :
        ScalarInRange(g) =>
            /\ \A i \in 1..Len(Det(g)) :
                   Within(min[g].number, Det(g)[i][VALUE], max[g].number)
            /\ (last.op = "get" /\ last.g = g /\ ~last.raised)
                   => Within(min[g].number, last.ret, max[g].number)

\* get(1) has returned the value of a gauge with scalar bounds and momenta
\* that meets its max later than at its base
C1_Witness ==
    /\ ScalarInRange("G")
    /\ last.op = "get" /\ last.g = "G" /\ last.at = R(1) /\ ~last.raised
    /\ base["G"][VALUE] # max["G"].number
    /\ momenta["G"] # <<>>
    /\ \E i \in 2..Len(Det("G")) : Det("G")[i][VALUE] = max["G"].number

\* the gauges of the limits of g
BoundsIn(h, g) ==
    (IF h.max[g].isGauge THEN {h.max[g].gauge} ELSE {})
        \cup (IF h.min[g].isGauge THEN {h.min[g].gauge} ELSE {})

BoundsOf(g) == BoundsIn(H, g)

\* g and the gauges of its limits have a determination to read
Determined(g) ==
    \A x \in {g} \cup BoundsOf(g) : determination[x].valid /\ Det(x) # <<>>

\* the times at which g or one of its limits turns
TurnsOf(g) == UNION {Times(Det(x)) : x \in {g} \cup BoundsOf(g)}

\* min.get(t) <= max.get(t)
LimitsOrderedAt(g, t) == RLe(GetMin(H, g, t).ret, GetMax(H, g, t).ret)

\* min.get(t) <= get(t) <= max.get(t)
InRangeAt(g, t) == Within(GetMin(H, g, t).ret, Get(H, g, t).ret, GetMax(H, g, t).ret)

\* C2: a gauge with a gauge as max and/or min, whose limits satisfy
\* min.get(t) <= max.get(t) at every t and whose base value lies within the
\* limits at its base time, has min.get(t) <= get(t) <= max.get(t) at every
\* t from its base time on.  (Between two turns the three trajectories are
\* straight, and after the last they are constant, so the turns decide.)
C2_HyperRange ==
    \A g \in Gauges :
        (/\ BoundsOf(g) # {}
         /\ Determined(g)
         /\ \A t \in TurnsOf(g) : LimitsOrderedAt(g, t)
         /\ InRangeAt(g, base[g][TIME]))
        => \A t \in TurnsOf(g) : RLe(base[g][TIME], t) => InRangeAt(g, t)

\* C7: the cached determination is strictly increasing in time
C7_StrictlyIncreasing ==
    \A g \in Gauges :
        \A i \in 1..(Len(Det(g)) - 1) : RLt(Det(g)[i][TIME], Det(g)[i + 1][TIME])

\* a determination of five vertices is cached
C7_Witness == \E g \in Gauges : determination[g].valid /\ Len(Det(g)) >= 5

\* C8: the determination is never empty and its first vertex is the base
C8_FirstVertexIsBase ==
    \A g \in Gauges :
        determination[g].valid => Det(g) # <<>> /\ Det(g)[1] = base[g]

(***************************************************************************)
(* Limits that are gauges: G takes and drops B as a limit, B changes, and  *)
(* the gauges are read.                                                    *)
(***************************************************************************)
\* calls per behaviour
MaxLinkOps == 3

NextLinks ==
    \/ \E limit \in LimitsOf("G"), clamp \in BOOLEAN :
          ops < MaxLinkOps /\ DoSetMax("G", limit, clamp, R(0))
    \/ \E limit \in LimitsOf("G"), clamp \in BOOLEAN :
          ops < MaxLinkOps /\ DoSetMin("G", limit, clamp, R(0))
    \/ \E g \in Gauges : ops < MaxLinkOps /\ DoDetermination(g)
    \/ \E g \in Gauges, at \in Ats : ops < MaxLinkOps /\ DoGet(g, at)
    \/ \E m \in MomentumSet : ops < MaxLinkOps /\ DoAddMomentum("B", m)
    \/ \E over \in BOOLEAN : ops < MaxLinkOps /\ DoIncr("B", R(2), over, FALSE, R(0))

SpecLinks == Init /\ [][NextLinks]_vars

\* the heap h with no determination cached
Uncached(h) == [h EXCEPT !.determination = DelCaches(@, Gauges)]

\* the determination of g in h, read
DetOf(h, g) == Determination(h, g).h.determination[g].det

\* C3: when B is the max or the min of G, every read of G after a mutation
\* of B equals the result computed afresh from G's base and momenta and the
\* trajectory of B: a cached determination of a gauge with a gauge as a
\* limit is the one computed afresh
C3_ReadsAreFresh ==
    \A g \in Gauges :
        (BoundsOf(g) # {} /\ determination[g].valid) => Det(g) = DetOf(Uncached(H), g)

Mutators ==
    {"add_momentum", "remove_momentum", "set_max", "set_min", "incr", "decr", "set",
     "clear_momenta", "forget_past"}

\* the gauges of seen, and those that use one of them as a limit, directly or
\* transitively
RECURSIVE UsersOf(_, _)
UsersOf(h, seen) ==
    LET more == {x \in Gauges : BoundsIn(h, x) \cap seen # {}} \ seen
    IN IF more = {} THEN seen ELSE UsersOf(h, seen \cup more)

\* C4: a mutator that completes without error leaves the gauge, and every
\* gauge that uses it directly or transitively as a limit, without a cached
\* determination
C4_MutatorsInvalidate ==
    [][(last'.op \in Mutators /\ ~last'.raised)
          => \A x \in UsersOf(HP, {last'.g}) : ~determination'[x].valid]_vars

(***************************************************************************)
(* Momenta: G is given momenta, loses them, and is read.                   *)
(***************************************************************************)
\* calls per behaviour
MaxMomentaOps == 3

NextMomenta ==
    \/ \E m \in MomentumSet : ops < MaxMomentaOps /\ DoAddMomentum("G", m)
    \/ \E m \in MomentumSet : ops < MaxMomentaOps /\ DoRemoveMomentum("G", m)
    \/ \E at \in Ats : ops < MaxMomentaOps /\ DoClearMomenta("G", at)
    \/ \E at \in Ats : ops < MaxMomentaOps /\ DoForgetPast("G", at)
    \/ ops < MaxMomentaOps /\ DoDetermination("G")

SpecMomenta == Init /\ [][NextMomenta]_vars

\* add_momentum(m) and then remove_momentum(m), with the determination read
\* in between when read is true
AddThenRemove(h, g, m, read) ==
    With(AddMomentum(h, g, m).h, LAMBDA h1 :
    RemoveMomentum(IF read THEN Determination(h1, g).h ELSE h1, g, m).h)

\* C5: the determination after add_momentum(m) followed by
\* remove_momentum(m) equals the determination before the two calls, whether
\* or not the gauge already holds a momentum equal to m and whether or not
\* the determination is read in between
C5_AddRemoveRestores ==
    \A g \in Gauges, m \in MomentumSet, read \in BOOLEAN :
        DetOf(AddThenRemove(Determination(H, g).h, g, m, read), g) = DetOf(H, g)

\* how many items of the sequence s equal x
Count(s, x) == Cardinality({i \in 1..Len(s) : s[i] = x})

\* the events walk_events yields between its two sentinels
Yielded(g) == SelectHeld(events[g], momenta[g])

\* C6: walk_events yields, between its sentinels, one ADD event for each
\* momentum instance the gauge holds, one REMOVE event for each such
\* instance with a finite until, and no event of a removed instance
C6_EventsMatchMomenta ==
    \A g \in Gauges :
        \A m \in {events[g][i][3] : i \in 1..Len(events[g])}
                  \cup {momenta[g][i] : i \in 1..Len(momenta[g])} :
            /\ Count(Yielded(g), <<Since(m), ADD, m>>) = Count(momenta[g], m)
            /\ Count(Yielded(g), <<Until(m), REMOVE, m>>)
                   = IF Until(m) = inf THEN 0 ELSE Count(momenta[g], m)

(***************************************************************************)
(* incr, decr and set                                                      *)
(***************************************************************************)
Adders == {"incr", "decr", "set"}

\* what a call of incr, decr or set reads before it changes anything:
\* get(at), get_max(at), get_min(at), and the delta it asks incr for
Reads(call) ==
    With(Get(H, call.g, call.at), LAMBDA r0 :
    With(GetMax(r0.h, call.g, call.at), LAMBDA r1 :
    With(GetMin(r1.h, call.g, call.at), LAMBDA r2 :
    [raised |-> r0.raised \/ r1.raised \/ r2.raised,
     prev |-> r0.ret, max |-> r1.ret, min |-> r2.ret,
     delta |-> IF call.op = "incr" THEN call.x
               ELSE IF call.op = "decr" THEN RSub(R(0), call.x)
               ELSE RSub(call.x, r0.ret)])))

\* the call is incr, decr or set with neither over nor clamp
Plain(call) == call.op \in Adders /\ ~call.over /\ ~call.clamp

\* the call is incr, decr or set with clamp and without over
Clamping(call) == call.op \in Adders /\ ~call.over /\ call.clamp

InRangeIn(h, g, t) == Within(GetMin(h, g, t).ret, Get(h, g, t).ret, GetMax(h, g, t).ret)

\* C10 as stated: after incr, decr or set with clamp at time t,
\* min(t) <= get(t) <= max(t), whatever the previous value was
C10_ClampedWithinLimits ==
    [][(Clamping(last') /\ ~last'.raised) => InRangeIn(HP, last'.g, last'.at)]_vars

\* C10 amended: after incr, decr or set at time t with clamp and without
\* over, min(t) <= get(t) <= max(t) when the previous value at t was within
\* [min(t), max(t)]
C10_ClampedWhenWithinBefore ==
    [][(Clamping(last') /\ ~last'.raised)
          => With(Reads(last'), LAMBDA r :
             (~r.raised /\ Within(r.min, r.prev, r.max))
                 => InRangeIn(HP, last'.g, last'.at))]_vars

\* set(5, clamp=True) has left a gauge of value 4 = max
C10_Witness ==
    /\ Clamping(last) /\ ~last.raised /\ last.op = "set"
    /\ ~max[last.g].isGauge
    /\ RLt(max[last.g].number, last.x)
    /\ base[last.g] = <<last.at, max[last.g].number>>

\* what the claim says incr with clamp leaves: prev + delta when that is within
\* the limit on the side of delta, and otherwise the limit, or prev when prev
\* is already beyond the limit
ClampedTo(prev, delta, max_, min_) ==
    IF RLt(R(0), delta)
    THEN (IF RLe(RAdd(prev, delta), max_) THEN RAdd(prev, delta) ELSE RMax(prev, max_))
    ELSE IF RLt(delta, R(0))
    THEN (IF RLe(min_, RAdd(prev, delta)) THEN RAdd(prev, delta) ELSE RMin(prev, min_))
    ELSE prev

\* C11: incr with clamp (and decr/set, which reduce to it) never moves the
\* value against the sign of delta: for delta > 0 the result is prev + delta
\* if prev + delta <= max(t) and max(prev, max(t)) otherwise; for delta < 0 it
\* is prev + delta if prev + delta >= min(t) and min(prev, min(t)) otherwise.
\* The result is returned and becomes the base value at t
C11_ClampNeverAgainstDelta ==
    [][Clamping(last') =>
          With(Reads(last'), LAMBDA r :
          ~r.raised =>
              /\ ~last'.raised
              /\ last'.ret = ClampedTo(r.prev, r.delta, r.max, r.min)
              /\ base'[last'.g] = <<last'.at, last'.ret>>
              /\ RLt(R(0), r.delta) => RLe(r.prev, last'.ret)
              /\ RLt(r.delta, R(0)) => RLe(last'.ret, r.prev))]_vars

\* incr with clamp has left a value above max where it was
C11_Witness ==
    /\ Clamping(last) /\ last.op = "incr" /\ ~last.raised
    /\ ~max[last.g].isGauge
    /\ RLt(max[last.g].number, last.ret)
    /\ base[last.g] = <<last.at, last.ret>>

(***************************************************************************)
(* Momenta of every range: since and until each -inf, 0, 1 or +inf; the    *)
(* gauges are then read and rebased.                                       *)
(***************************************************************************)
\* calls per behaviour
MaxEdgeOps == 2

Ends == {NegInf, R(0), R(1), inf}

\* the momenta given to add_momentum
EdgeMomenta == {Momentum(R(1), since, until) : since \in Ends, until \in Ends}

NextEdge ==
    \/ \E g \in Gauges, m \in EdgeMomenta : ops < MaxEdgeOps /\ DoAddMomentum(g, m)
    \/ \E g \in Gauges, over \in BOOLEAN, clamp \in BOOLEAN, at \in Ats :
          ops < MaxEdgeOps /\ DoIncr(g, R(2), over, clamp, at)
    \/ \E g \in Gauges, over \in BOOLEAN, clamp \in BOOLEAN, at \in Ats :
          ops < MaxEdgeOps /\ DoSet(g, R(5), over, clamp, at)
    \/ \E g \in Gauges : ops < MaxEdgeOps /\ DoDetermination(g)
    \/ \E g \in Gauges, at \in Ats : ops < MaxEdgeOps /\ DoGet(g, at)

SpecEdge == Init /\ [][NextEdge]_vars

\* the call is incr or set
Rebasing(call) == call.op \in {"incr", "set"}

\* the value the call asks for: prev + delta, respectively v
Asked(call, prev) == IF call.op = "set" THEN call.x ELSE RAdd(prev, call.x)

\* times before at, and at
UpTo(at) == {t \in {R(-1), R(0), R(1)} : RLe(t, at)}

\* C12 (second part): whenever incr or set succeeds without clamping, it
\* returns the new value, the base becomes (t, new value), and get(t) and
\* get(t') for every t' < t equal the new value
C12_RebasesAtNewValue ==
    [][(Rebasing(last') /\ ~last'.raised /\ (last'.over \/ ~last'.clamp))
          => With(Asked(last', Get(H, last'.g, last'.at).ret), LAMBDA new :
             /\ last'.ret = new
             /\ base'[last'.g] = <<last'.at, new>>
             /\ \A t \in UpTo(last'.at) : Get(HP, last'.g, t).ret = new)]_vars

\* C12: incr and set with over never fail
C12_OverNeverFails ==
    [][(Rebasing(last') /\ last'.over) => ~last'.raised]_vars

\* C15 (first part): add_momentum with finite since >= until is rejected and
\* leaves the momenta, the event log and the cached determination unchanged
C15_RejectsFiniteEmptyRange ==
    [][(/\ last'.op = "add_momentum"
        /\ IsFinite(Since(last'.m)) /\ IsFinite(Until(last'.m))
        /\ RLe(Until(last'.m), Since(last'.m)))
          => (/\ last'.raised
              /\ momenta' = momenta
              /\ events' = events
              /\ determination' = determination)]_vars

\* C15: every momentum held by a gauge has since < until
C15_HeldMomentaOrdered ==
    \A g \in Gauges :
        \A i \in 1..Len(momenta[g]) : RLt(Since(momenta[g][i]), Until(momenta[g][i]))

(***************************************************************************)
(* remove_momentum                                                         *)
(***************************************************************************)
\* the momenta a gauge may hold or be asked to remove
Known(g) == MomentumSet \cup {momenta[g][i] : i \in 1..Len(momenta[g])}

\* C13: remove_momentum(m) on a gauge holding k >= 1 momenta equal to m
\* leaves exactly k - 1 of them and leaves the multiplicity of every other
\* momentum unchanged (so equal momenta added twice need two removals)
C13_RemovesOneInstance ==
    [][(last'.op = "remove_momentum" /\ Contains(momenta[last'.g], last'.m))
          => /\ ~last'.raised
             /\ \A x \in Known(last'.g) :
                    Count(momenta'[last'.g], x)
                        = Count(momenta[last'.g], x) - (IF x = last'.m THEN 1 ELSE 0)
             /\ \A g \in Gauges \ {last'.g} : momenta'[g] = momenta[g]]_vars

\* a momentum added twice has been removed once, and is still held once
C13_Witness ==
    /\ last.op = "remove_momentum" /\ ~last.raised
    /\ Count(momenta[last.g], last.m) = 1

\* C14: remove_momentum of a momentum that is not in the gauge (all three
\* fields must match) fails and leaves base, momenta, bounds and the cached
\* determination unchanged
C14_RemoveAbsentFails ==
    [][(last'.op = "remove_momentum" /\ ~Contains(momenta[last'.g], last'.m))
          => /\ last'.raised
             /\ base' = base
             /\ momenta' = momenta
             /\ max' = max
             /\ min' = min
             /\ determination' = determination]_vars

\* remove_momentum has failed on a gauge with a cached determination that
\* holds a momentum of the same velocity and another range
C14_Witness ==
    /\ last.op = "remove_momentum" /\ last.raised
    /\ determination[last.g].valid
    /\ \E i \in 1..Len(momenta[last.g]) :
           Velocity(momenta[last.g][i]) = Velocity(last.m)

(***************************************************************************)
(* Reads: gauges built with momenta are read with get, velocity, whenever  *)
(* and when, once and again.                                               *)
(***************************************************************************)
\* reads per behaviour
MaxReadOps == 2

\* the times of get and velocity
ReadAts == {R(t) : t \in -1..(MaxAt + 1)}

\* the goals of whenever and when
Goals == {R(1), R(2)}

\* `after` of when
Afters == {0, 1}

\* B = Gauge(1, 4, 0, at=0) with at most one momentum, and
\* G = Gauge(vG, maxG, 0, at=0) with its momenta
InitRead ==
    \E vG \in {R(1), R(4)}, maxG \in {Number(R(4)), GaugeLimit("B")},
       msB \in Multisets(BoundMomenta, 1),
       msG \in Multisets(GaugeMomenta, MaxMomenta) :
        StartsAs(AddAll(AddAll(NewHeap(R(1), Number(R(4)), Number(R(0)), R(0),
                                       vG, maxG, Number(R(0)), R(0)), "B", msB), "G", msG))

NextRead ==
    \/ \E g \in Gauges, at \in ReadAts : ops < MaxReadOps /\ DoGet(g, at)
    \/ \E g \in Gauges, at \in ReadAts : ops < MaxReadOps /\ DoVelocity(g, at)
    \/ \E g \in Gauges, value \in Goals : ops < MaxReadOps /\ DoWhenever(g, value)
    \/ \E g \in Gauges, value \in Goals, after \in Afters :
          ops < MaxReadOps /\ DoWhen(g, value, after)

SpecRead == InitRead /\ [][NextRead]_vars

\* the slope of the segment of det that starts at its i-th vertex, 0 after
\* the last vertex
SlopeFrom(det, i) ==
    IF i >= Len(det) THEN R(0)
    ELSE RDiv(RSub(det[i + 1][VALUE], det[i][VALUE]), RSub(det[i + 1][TIME], det[i][TIME]))

\* how many vertices of det are at or before at
VerticesUpTo(det, at) == Cardinality({i \in 1..Len(det) : RLe(det[i][TIME], at)})

\* C16: velocity(t), for t at or after the first vertex, is the slope of the
\* determination segment containing t; when t is the time of a vertex it is
\* the slope of the segment that starts at that vertex, and 0 after the last
\* vertex
C16_RightHandSlope ==
    (last.op = "velocity" /\ ~last.raised /\ VerticesUpTo(Det(last.g), last.at) >= 1)
        => last.ret = SlopeFrom(Det(last.g), VerticesUpTo(Det(last.g), last.at))

\* a and b lie in one segment [t_i, t_{i+1}] of det
SameSegment(det, a, b) ==
    \E i \in 1..(Len(det) - 1) : RLe(det[i][TIME], a) /\ RLe(b, det[i + 1][TIME])

\* C17: for two times a < b in the same determination segment (a may be its
\* left vertex), get(b) - get(a) = velocity(a) * (b - a); a is the time of
\* the velocity read
C17_GetFollowsVelocity ==
    (last.op = "velocity" /\ ~last.raised)
        => \A b \in ReadAts :
               (RLt(last.at, b) /\ SameSegment(Det(last.g), last.at, b))
                   => RSub(Get(H, last.g, b).ret, Get(H, last.g, last.at).ret)
                          = RMul(last.ret, RSub(b, last.at))

\* the value of the trajectory det at the time t, as the claim states it:
\* the base value up to the first vertex, the last value from the last
\* vertex on, and between two vertices the value on the straight line
\* through them
Interpolated(g, det, t) ==
    IF RLe(t, det[1][TIME]) THEN base[g][VALUE]
    ELSE IF RLe(det[Len(det)][TIME], t) THEN det[Len(det)][VALUE]
    ELSE LET i == VerticesUpTo(det, t)
         IN RAdd(det[i][VALUE],
                 RDiv(RMul(RSub(det[i + 1][VALUE], det[i][VALUE]), RSub(t, det[i][TIME])),
                      RSub(det[i + 1][TIME], det[i][TIME])))

\* C18: get(t) returns the base value for every t at or before the first
\* vertex, the last vertex's value for every t at or after the last vertex,
\* the vertex value at each vertex time, and the linear interpolation
\* between the two neighbouring vertices otherwise
C18_GetInterpolates ==
    (last.op = "get" /\ ~last.raised)
        => /\ last.ret = Interpolated(last.g, Det(last.g), last.at)
           /\ \A i \in 1..Len(Det(last.g)) :
                  Det(last.g)[i][TIME] = last.at => last.ret = Det(last.g)[i][VALUE]

\* get has returned a value strictly between two vertices of different
\* values
C18_Witness ==
    /\ last.op = "get" /\ ~last.raised
    /\ \E i \in 1..(Len(Det(last.g)) - 1) :
           /\ RLt(Det(last.g)[i][TIME], last.at)
           /\ RLt(last.at, Det(last.g)[i + 1][TIME])
           /\ Det(last.g)[i][VALUE] # Det(last.g)[i + 1][VALUE]
           /\ last.ret # Det(last.g)[i][VALUE]

\* the segments of det that reach value: v1 < value <= v2 or v1 > value >= v2
Reaching(det, value) ==
    {i \in 1..(Len(det) - 1) :
        \/ RLt(det[i][VALUE], value) /\ RLe(value, det[i + 1][VALUE])
        \/ RLt(value, det[i][VALUE]) /\ RLe(det[i + 1][VALUE], value)}

\* times is strictly increasing, every time of it is one at which g has the
\* value goal, and it holds one time for each segment of det that reaches
\* goal, preceded by the base time when the base value is goal
YieldsCrossings(g, det, goal, times) ==
    LET first == IF base[g][VALUE] = goal THEN 1 ELSE 0
    IN /\ \A k \in 1..(Len(times) - 1) : RLt(times[k], times[k + 1])
       /\ \A k \in 1..Len(times) : Get(H, g, times[k]).ret = goal
       /\ Len(times) = first + Cardinality(Reaching(det, goal))
       /\ first = 1 => times[1] = base[g][TIME]
       /\ \A i \in Reaching(det, goal) :
              Cardinality({k \in (first + 1)..Len(times) :
                              /\ RLt(det[i][TIME], times[k])
                              /\ RLe(times[k], det[i + 1][TIME])}) = 1

\* C19: whenever(goal) yields a strictly increasing sequence of times, each
\* satisfying get(time) = goal, with one time per determination segment
\* (t1, v1) -> (t2, v2) such that v1 < goal <= v2 or v1 > goal >= v2, preceded
\* by the base time when the base value equals goal; no time is yielded twice
C19_WheneverYieldsCrossings ==
    (last.op = "whenever" /\ ~last.raised)
        => YieldsCrossings(last.g, Det(last.g), last.x, last.ret)

\* C19, for a gauge whose cached determination is not empty
C19_CrossingsOfDetermination ==
    (last.op = "whenever" /\ ~last.raised /\ Det(last.g) # <<>>)
        => YieldsCrossings(last.g, Det(last.g), last.x, last.ret)

\* C20: when(goal, after=n) returns the (n+1)-th time yielded by
\* whenever(goal), and fails exactly when whenever(goal) yields fewer than
\* n + 1 times; in both cases base, momenta and bounds are unchanged
C20_WhenIsNthOfWhenever ==
    [][last'.op = "when" =>
          With(Whenever(H, last'.g, last'.x), LAMBDA w :
          /\ last'.raised <=> (w.raised \/ Len(w.ret) < last'.after + 1)
          /\ ~last'.raised => last'.ret = w.ret[last'.after + 1]
          /\ base' = base
          /\ momenta' = momenta
          /\ max' = max
          /\ min' = min)]_vars

\* when(goal, after=1) has returned the second of the times of a gauge that
\* reaches goal twice
C20_Witness ==
    /\ last.op = "when" /\ last.after = 1 /\ ~last.raised
    /\ Cardinality(Reaching(Det(last.g), last.x)) + (IF base[last.g][VALUE] = last.x THEN 1 ELSE 0) >= 2

\* when(goal, after=1) has failed on a gauge that reaches goal once
C20_WitnessUnreachable ==
    /\ last.op = "when" /\ last.after = 1 /\ last.raised
    /\ Cardinality(Reaching(Det(last.g), last.x)) = 1
    /\ base[last.g][VALUE] # last.x

(***************************************************************************)
(* Serialization                                                           *)
(***************************************************************************)
\* Gauge.__getstate__: base, max, min and the momenta as tuples
GetState(h, g) ==
    [base |-> h.base[g], max |-> h.max[g], min |-> h.min[g], momenta |-> h.momenta[g]]

\* Gauge.__setstate__ of B and then of G: __init__ with the base, max and
\* min of the state, then add_momentum for each momentum of the state
SetState(stateB, stateG) ==
    AddAll(AddAll(NewHeap(stateB.base[VALUE], stateB.max, stateB.min, stateB.base[TIME],
                          stateG.base[VALUE], stateG.max, stateG.min, stateG.base[TIME]),
                  "B", stateB.momenta), "G", stateG.momenta)

\* the gauges rebuilt from their serialized states
Rebuilt(h) == SetState(GetState(h, "B"), GetState(h, "G"))

\* the outcome of reading the determination of g in h: whether the read
\* raises, and the determination it returns otherwise
ReadOf(h, g) ==
    With(Determination(h, g), LAMBDA r :
    [raised |-> r.raised, det |-> IF r.raised THEN <<>> ELSE r.h.determination[g].det])

\* C21: whatever mutations a gauge has gone through (momenta removed, gauges
\* as limits), the gauge rebuilt from its serialized state has exactly the
\* determination of the gauge, and so has each gauge it is bound by
C21_RoundTripPreserves ==
    \A g \in Gauges : ReadOf(Rebuilt(H), g) = ReadOf(H, g)

\* no event of a momentum instance that was removed is left in _events
NoStaleEvents(h) ==
    \A g \in Gauges :
        \A m \in {h.events[g][i][3] : i \in 1..Len(h.events[g])} :
            /\ Count(h.events[g], <<Since(m), ADD, m>>) = Count(h.momenta[g], m)
            /\ Count(h.events[g], <<Until(m), REMOVE, m>>)
                   = IF Until(m) = inf THEN 0 ELSE Count(h.momenta[g], m)

\* the round trip preserves the determination computed afresh of gauges
\* whose stored events are those of the momenta they hold
C21_RoundTripWithoutStaleEvents ==
    NoStaleEvents(H) =>
        \A g \in Gauges : ReadOf(Rebuilt(H), g) = ReadOf(Uncached(H), g)

(***************************************************************************)
(* set_max and set_min on gauges that hold momenta                         *)
(***************************************************************************)
\* calls per behaviour
MaxLimitOps == 2

\* B = Gauge(1, 4, 0, at=0) and G = Gauge(vG, maxG, minG, at=0), each with its
\* momenta added
InitLimits ==
    \E vG \in {R(1), R(6)},
       maxG \in {Number(R(4)), GaugeLimit("B")}, minG \in {Number(R(0)), GaugeLimit("B")},
       msB \in Multisets(BoundMomenta, 1),
       msG \in Multisets(GaugeMomenta, MaxMomenta) :
        StartsAs(AddAll(AddAll(NewHeap(R(1), Number(R(4)), Number(R(0)), R(0),
                                       vG, maxG, minG, R(0)), "B", msB), "G", msG))

NextLimits ==
    \/ \E at \in Ats : ops < MaxLimitOps /\ DoGet("G", at)
    \/ \E limit \in LimitsOf("G"), clamp \in BOOLEAN, at \in Ats :
          ops < MaxLimitOps /\ DoSetMax("G", limit, clamp, at)
    \/ \E limit \in LimitsOf("G"), clamp \in BOOLEAN, at \in Ats :
          ops < MaxLimitOps /\ DoSetMin("G", limit, clamp, at)

SpecLimits == InitLimits /\ [][NextLimits]_vars

\* x is on the allowed side of the limit b: x <= b for a max, b <= x for a min
Allowed(isMax, x, b) == IF isMax THEN RLe(x, b) ELSE RLe(b, x)

\* the call set_max or set_min with clamp=True has returned
ClampingLimit(call) == call.op \in {"set_max", "set_min"} /\ call.clamp /\ ~call.raised

\* C22: after set_max(b, clamp=True, at=t), get(t) <= the new max at t, and
\* after set_min(b, clamp=True, at=t), get(t) >= the new min at t; when the
\* value at t was already on the allowed side of the new bound, the base is
\* not changed
C22_ClampedToNewLimit ==
    [][ClampingLimit(last') =>
          With(last'.op = "set_max", LAMBDA isMax :
          With(Get(HP, last'.g, last'.at), LAMBDA after :
          With(GetLimit(HP, last'.limit, last'.at), LAMBDA bound :
          With(Get(H, last'.g, last'.at), LAMBDA before :
              /\ ~after.raised
              /\ ~bound.raised
              /\ Allowed(isMax, after.ret, bound.ret)
              /\ (~before.raised /\ Allowed(isMax, before.ret, bound.ret))
                     => base' = base))))]_vars

\* the first part of C22, for a gauge whose limits were numbers before the
\* call
C22_ClampedWhenLimitsWereNumbers ==
    [][(ClampingLimit(last') /\ ~max[last'.g].isGauge /\ ~min[last'.g].isGauge) =>
          With(last'.op = "set_max", LAMBDA isMax :
          With(Get(HP, last'.g, last'.at), LAMBDA after :
          With(GetLimit(HP, last'.limit, last'.at), LAMBDA bound :
              /\ ~after.raised
              /\ ~bound.raised
              /\ Allowed(isMax, after.ret, bound.ret))))]_vars

(***************************************************************************)
(* Rebasing: clear_momenta, forget_past, incr, decr and set on gauges that *)
(* hold momenta.                                                           *)
(***************************************************************************)
\* calls per behaviour
MaxRebaseOps == 2

\* the times of the calls: before, at and after the finite untils of
\* GaugeMomenta
RebaseAts == {R(1), R(2), R(3)}

\* B = Gauge(1, 4, 0, at=0) and G = Gauge(vG, maxG, minG, at=0), each with its
\* momenta added
InitRebase ==
    \E vG \in {R(1), R(6)},
       maxG \in {Number(R(4)), GaugeLimit("B")}, minG \in {Number(R(0)), GaugeLimit("B")},
       msB \in {<<>>, <<BoundMomenta[1]>>},
       msG \in Multisets(GaugeMomenta, MaxMomenta) :
        StartsAs(AddAll(AddAll(NewHeap(R(1), Number(R(4)), Number(R(0)), R(0),
                                       vG, maxG, minG, R(0)), "B", msB), "G", msG))

NextRebase ==
    \/ \E at \in RebaseAts : ops < MaxRebaseOps /\ DoClearMomenta("G", at)
    \/ \E at \in RebaseAts : ops < MaxRebaseOps /\ DoClearMomentaTo("G", R(5), at)
    \/ \E at \in RebaseAts : ops < MaxRebaseOps /\ DoForgetPast("G", at)
    \/ \E at \in RebaseAts : ops < MaxRebaseOps /\ DoForgetPastTo("G", R(5), at)
    \/ \E over \in BOOLEAN, at \in RebaseAts :
          ops < MaxRebaseOps /\ DoIncr("G", R(2), over, FALSE, at)
    \/ \E at \in RebaseAts : ops < MaxRebaseOps /\ DoDecr("G", R(2), TRUE, FALSE, at)
    \/ \E at \in RebaseAts : ops < MaxRebaseOps /\ DoSet("G", R(5), TRUE, FALSE, at)
    \/ \E at \in RebaseAts : ops < MaxRebaseOps /\ DoGet("G", at)

SpecRebase == InitRebase /\ [][NextRebase]_vars

\* clear_momenta has returned
Cleared(call) == call.op = "clear_momenta" /\ ~call.raised

\* the value clear_momenta or forget_past sets: the one given, or the value
\* get(at) has before the call
ValueSet(call) == IF call.given THEN call.x ELSE Get(H, call.g, call.at).ret

\* after clear_momenta(v, at=t) the gauge holds no momentum and its
\* determination is the single vertex (t, v)
ClearedTo(call) ==
    /\ momenta'[call.g] = <<>>
    /\ ReadOf(HP, call.g) = [raised |-> FALSE, det |-> <<(<<call.at, ValueSet(call)>>)>>]

\* C23 (as stated): after clear_momenta(v, at=t) the momentum multiset is
\* empty and the determination is the single vertex (t, v), where v defaults
\* to the value get(t) had before the call, even when that value is outside
\* the bounds
C23_ClearedIsSingleVertex ==
    [][Cleared(last') => ClearedTo(last')]_vars

\* C23 (amended): the same, for a gauge whose max and min are numbers; a
\* gauge bound by a gauge holds no momentum after clear_momenta and its
\* determination starts at (t, v)
C23_ClearedIsSingleVertexInNumbers ==
    [][Cleared(last') =>
          /\ momenta'[last'.g] = <<>>
          /\ base'[last'.g] = <<last'.at, ValueSet(last')>>
          /\ (BoundsIn(HP, last'.g) = {} => ClearedTo(last'))]_vars

\* clear_momenta without a value has rebased a gauge that held momenta and
\* had numbers as limits at a value outside them
C23_Witness ==
    /\ Cleared(last) /\ ~last.given
    /\ BoundsOf(last.g) = {}
    /\ RLt(max[last.g].number, base[last.g][VALUE])
    /\ base[last.g] = <<last.at, last.ret>>
    /\ events[last.g] # <<>>
    /\ Det(last.g) = <<>>

\* forget_past, or incr, decr or set, which call it, has returned
Forgetting(call) == call.op \in {"forget_past", "incr", "decr", "set"} /\ ~call.raised

\* the base of the gauge becomes (t, v): v is the value forget_past is given
\* or the value get(t) had, and the new value incr, decr and set return
RebasedTo(call) ==
    /\ base'[call.g] = <<call.at, call.ret>>
    /\ call.op = "forget_past" => call.ret = ValueSet(call)

\* C24: after forget_past(v, at=t), and after incr, decr and set at time t,
\* the base is (t, v) and the gauge holds exactly the momenta it held before
\* with until > t: every momentum with until <= t, until = t included, has
\* been dropped and no other one has
C24_ForgetsUntilNotLater ==
    [][Forgetting(last') =>
          /\ RebasedTo(last')
          /\ momenta'[last'.g]
                 = SelectSeq(momenta[last'.g], LAMBDA m : RLt(last'.at, Until(m)))]_vars

\* what forget_past does: the base is (t, v) and the momenta dropped are
\* those with -inf < until < t
C24_ForgetsUntilEarlier ==
    [][Forgetting(last') =>
          /\ RebasedTo(last')
          /\ momenta'[last'.g]
                 = SelectSeq(momenta[last'.g],
                             LAMBDA m : Until(m) = NegInf \/ RLe(last'.at, Until(m)))]_vars

(***************************************************************************)
(* The graph of the limits: any gauge is given as a limit of any gauge.    *)
(***************************************************************************)
\* calls per behaviour
MaxCycleOps == 2

\* the limits given: a number, the gauge itself and the other gauge
AnyLimits == {Number(R(4))} \cup {GaugeLimit(x) : x \in Gauges}

NextCycle ==
    \/ \E g \in Gauges, limit \in AnyLimits, clamp \in BOOLEAN :
          ops < MaxCycleOps /\ DoSetMax(g, limit, clamp, R(0))
    \/ \E g \in Gauges, limit \in AnyLimits, clamp \in BOOLEAN :
          ops < MaxCycleOps /\ DoSetMin(g, limit, clamp, R(0))
    \/ \E g \in Gauges : ops < MaxCycleOps /\ DoGet(g, R(0))

SpecCycle == Init /\ [][NextCycle]_vars

\* the gauges that bound g, directly or through a chain of limits
RECURSIVE BoundedBy(_, _, _)
BoundedBy(h, todo, seen) ==
    IF todo = {} THEN seen
    ELSE LET x == CHOOSE y \in todo : TRUE
         IN BoundedBy(h, (todo \cup (BoundsIn(h, x) \ seen)) \ {x}, seen \cup {x})

\* no gauge is its own max or min, directly or through a chain of limits
Acyclic(h) ==
    \A g \in Gauges : g \notin BoundedBy(h, BoundsIn(h, g), BoundsIn(h, g))

\* C25: after any sequence of set_max and set_min calls the graph of the
\* limits is acyclic: no gauge is its own max or min, directly or through a
\* chain of limits (a call that would create such a cycle is rejected, so
\* that invalidate() and the recursive determination always terminate)
C25_LimitsAcyclic == Acyclic(H)

\* set_max and set_min raise when they make a gauge its own limit, directly
\* or through a chain of limits, but the limit stays set
C25_CyclicCallRaises ==
    [][(last'.op \in {"set_max", "set_min"} /\ Acyclic(H) /\ ~Acyclic(HP))
           => last'.raised]_vars

(***************************************************************************)
(* Errors and termination of determine()                                   *)
(***************************************************************************)
\* the momenta g holds have since < until
ValidMomenta(h, g) ==
    \A i \in 1..Len(h.momenta[g]) : RLt(Since(h.momenta[g][i]), Until(h.momenta[g][i]))

\* C26: for every gauge with a finite base, numbers or gauges as limits and
\* valid momenta (since < until, its limits' momenta included), computing
\* the determination completes without raising: the errors of Line.get and
\* Line.intersect and of velocities.remove never escape determine()
C26_DetermineNeverRaises ==
    \A g \in Gauges :
        (\A x \in {g} \cup BoundsOf(g) : ValidMomenta(H, x))
            => ~ReadOf(Uncached(H), g).raised

\* the determination of a gauge bound by a gauge that moves has been
\* computed: both hold valid momenta, a REMOVE event of the gauge has been
\* applied, and the gauge meets a limit
C26_Witness ==
    /\ last.op = "determination" /\ last.g = "G" /\ ~last.raised
    /\ BoundsOf("G") # {}
    /\ \A x \in Gauges : momenta[x] # <<>> /\ ValidMomenta(H, x)
    /\ \E i \in 1..Len(momenta["G"]) : IsFinite(Until(momenta["G"][i]))
    /\ Len(Det("G")) >= 4

(***************************************************************************)
(* Gauges whose base value is outside their limits                         *)
(***************************************************************************)
\* momenta a gauge is given before it is read
MaxOverMomenta == 3

\* G = Gauge(vG, 4, 0, at=atG) with vG above max or below min, and its momenta
InitOver ==
    \E vG \in {R(6), R(-2)}, atG \in {R(0), R(2)},
       msG \in Multisets(GaugeMomenta, MaxOverMomenta) :
        StartsAs(AddAll(NewHeap(R(1), Number(R(4)), Number(R(0)), R(0),
                                vG, Number(R(4)), Number(R(0)), atG), "G", msG))

NextOver ==
    \/ ops < MaxReads /\ DoDetermination("G")
    \/ \E at \in ReadAts : ops < MaxReads /\ DoGet("G", at)

SpecOver == InitOver /\ [][NextOver]_vars

\* the determination never rises from a vertex above hi and never exceeds hi
\* after a vertex that is not above it
FallsBackTo(det, hi) ==
    \A i \in 1..(Len(det) - 1) :
        /\ RLt(hi, det[i][VALUE]) => RLe(det[i + 1][VALUE], det[i][VALUE])
        /\ RLe(det[i][VALUE], hi) => RLe(det[i + 1][VALUE], hi)

\* the determination never falls from a vertex below lo and never goes below
\* lo after a vertex that is not below it
RisesBackTo(det, lo) ==
    \A i \in 1..(Len(det) - 1) :
        /\ RLt(det[i][VALUE], lo) => RLe(det[i][VALUE], det[i + 1][VALUE])
        /\ RLe(lo, det[i][VALUE]) => RLe(lo, det[i + 1][VALUE])

\* C27: when the base value is above a number max, the trajectory is
\* non-increasing while the value is above max, and from the first time it
\* reaches max it never exceeds max again; symmetrically for a base value
\* below a number min.  (Between two vertices the trajectory is straight, so
\* the vertices decide.)
C27_OverReturnsAndStays ==
    \A g \in Gauges :
        (determination[g].valid /\ ~max[g].isGauge /\ ~min[g].isGauge) =>
            /\ RLt(max[g].number, base[g][VALUE]) => FallsBackTo(Det(g), max[g].number)
            /\ RLt(base[g][VALUE], min[g].number) => RisesBackTo(Det(g), min[g].number)

\* a gauge based above its max, holding a momentum that pushes upwards, has
\* come down to max and has a later vertex
C27_Witness ==
    /\ determination["G"].valid
    /\ RLt(max["G"].number, base["G"][VALUE])
    /\ \E i \in 1..Len(momenta["G"]) : RLt(R(0), Velocity(momenta["G"][i]))
    /\ \E i \in 2..(Len(Det("G")) - 1) : Det("G")[i][VALUE] = max["G"].number

(***************************************************************************)
(* A limit that is a gauge without momenta                                 *)
(***************************************************************************)
\* the limit as a number: the base value of a gauge given as the limit
AsNumber(h, limit) == IF limit.isGauge THEN Number(h.base[limit.gauge][VALUE]) ELSE limit

\* the heap in which the limits of g that are gauges are the numbers of their
\* base values
WithNumbers(h, g) ==
    [h EXCEPT !.max[g] = AsNumber(h, @), !.min[g] = AsNumber(h, @)]

\* the gauges that bound g hold no momentum, have numbers as limits and are
\* based not later than g
BoundsAtRest(h, g) ==
    \A b \in BoundsIn(h, g) :
        /\ h.momenta[b] = <<>>
        /\ BoundsIn(h, b) = {}
        /\ RLe(h.base[b][TIME], h.base[g][TIME])

\* C28: a gauge bound by a gauge that holds no momentum, has the value c and
\* is based not later than it, has the determination of the same gauge bound
\* by the number c, whatever its base and momenta
C28_RestingGaugeIsNumber ==
    \A g \in Gauges :
        BoundsAtRest(H, g) =>
            ReadOf(Uncached(H), g) = ReadOf(Uncached(WithNumbers(H, g)), g)

\* the determination of a gauge with momenta has been read; its max is a
\* gauge without momenta, which it meets and leaves
C28_Witness ==
    /\ determination["G"].valid
    /\ max["G"] = GaugeLimit("B") /\ momenta["B"] = <<>>
    /\ momenta["G"] # <<>>
    /\ \E i \in 2..(Len(Det("G")) - 1) :
           /\ Det("G")[i][VALUE] = base["B"][VALUE]
           /\ Det("G")[i + 1][VALUE] # base["B"][VALUE]


(***************************************************************************)
(* determine() step by step.  Reading Gauge.determination of a gauge that  *)
(* has no cache starts the generator determine(); the generator first      *)
(* takes the lines of the limits (walk_lines, which reads the              *)
(* determination of a limit that is a gauge, and so may start the          *)
(* generator of that gauge), and then runs its loops.  gen is the stack    *)
(* of the generators in progress.                                          *)
(***************************************************************************)
MaxRuns == 2

\* the generator of g, started in heap h, before it has taken any line
Frame(h, g) ==
    [g |-> g, phase |-> "ceil", ceil |-> <<>>, floor |-> <<>>, s |-> <<>>,
     from |-> h]

\* the locals of the generator f that do not change while it runs
FrameContext(h, f) ==
    [t0 |-> h.base[f.g][TIME], events |-> WalkEvents(h, f.g),
     ceil |-> f.ceil, floor |-> f.floor]

\* lines 497-498 and 469-487: the generator on top of the stack takes the
\* lines of a limit.  A limit that is a gauge without a cache is determined
\* first; one whose cached determination is empty makes walk_lines raise,
\* which ends every generator of the stack
TakeLines(h, stack) ==
    LET f == stack[Len(stack)]
        limit == IF f.phase = "ceil" THEN h.max[f.g] ELSE h.min[f.g]
        det == IF limit.isGauge THEN h.determination[limit.gauge].det ELSE <<R(0)>>
        walked == WalkLines(limit.isGauge, limit.number, det, h.base[f.g][TIME])
        f1 == IF f.phase = "ceil" THEN [f EXCEPT !.ceil = walked, !.phase = "floor"]
              ELSE [f EXCEPT !.floor = walked, !.phase = "run"]
        f2 == IF f1.phase = "run"
              THEN [f1 EXCEPT !.s = <<DetermineStart(FrameContext(h, f1),
                                                     h.base[f.g][VALUE])>>]
              ELSE f1
    IN IF limit.isGauge /\ ~h.determination[limit.gauge].valid
       THEN [h |-> [h EXCEPT !.determination[limit.gauge] =
                                 [valid |-> TRUE, det |-> <<>>]],
             gen |-> Append(stack, Frame(h, limit.gauge)), raised |-> FALSE]
       ELSE IF det = <<>> THEN [h |-> h, gen |-> <<>>, raised |-> TRUE]
       ELSE [h |-> h, gen |-> [stack EXCEPT ![Len(stack)] = f2], raised |-> FALSE]

\* lines 80-87 and 510-590: the generator on top of the stack makes one step
\* of its loops; what it has yielded is cached, and the events it has passed
\* that are no longer held are removed (walk_events).  At its end the
\* generator leaves the stack; when it raises, every generator does
RunStep(h, stack) ==
    LET f == stack[Len(stack)]
        s == DetermineStep(FrameContext(h, f), f.s[1])
        h1 == [h EXCEPT !.determination[f.g] =
                            [valid |-> TRUE, det |-> Dedup(s.out, 1, <<>>)],
                        !.events[f.g] = PruneEvents(@, h.momenta[f.g], s.ei - 1)]
    IN IF s.pc = "error" THEN [h |-> h1, gen |-> <<>>, raised |-> TRUE]
       ELSE IF s.pc = "done"
       THEN [h |-> h1, gen |-> SubSeq(stack, 1, Len(stack) - 1), raised |-> FALSE]
       ELSE [h |-> h1, gen |-> [stack EXCEPT ![Len(stack)].s = <<s>>],
             raised |-> FALSE]

GenStep(h, stack) ==
    IF stack[Len(stack)].phase = "run" THEN RunStep(h, stack)
    ELSE TakeLines(h, stack)

\* lines 75-80: g.determination is read and g has no cache
StartRead(g) ==
    /\ gen = <<>>
    /\ ~determination[g].valid
    /\ gen' = <<Frame(H, g)>>
    /\ determination' = [determination EXCEPT ![g] = [valid |-> TRUE, det |-> <<>>]]
    /\ last' = [NoCall EXCEPT !.op = "determination", !.g = g]
    /\ ops' = ops + 1
    /\ UNCHANGED <<base, momenta, events, max, min, links, lines>>

\* the `for` loop of line 82 asks the generator for its next node
StepRead ==
    /\ gen # <<>>
    /\ LET r == GenStep(H, gen)
       IN /\ gen' = r.gen
          /\ determination' = r.h.determination
          /\ events' = r.h.events
          /\ last' = [last EXCEPT !.raised = r.raised]
    /\ UNCHANGED <<base, momenta, max, min, links, ops, lines>>

NextRun ==
    \/ \E g \in Gauges : ops < MaxRuns /\ StartRead(g)
    \/ StepRead

\* the loop of line 82 runs the generator as long as it yields
SpecRun == InitDet /\ [][NextRun]_vars /\ WF_vars(StepRead)

\* the order of termination: a < b when a is a proper prefix of b, or is
\* smaller where they first differ
RECURSIVE LexLess(_, _)
LexLess(a, b) ==
    IF b = <<>> THEN FALSE
    ELSE IF a = <<>> THEN TRUE
    ELSE IF a[1] # b[1] THEN a[1] < b[1]
    ELSE LexLess(Tail(a), Tail(b))

\* line 537: the gauge is about to be released from the bound it follows
WouldRelease(c, s) ==
    /\ s.overlapped
    /\ LET bl == BoundaryLine(c, s, s.bound)
           cmp == CmpOf(s.bound)
       IN Cmp(cmp, Best(cmp, SumSeq(s.velocities), bl.velocity), bl.velocity)

\* what is left to a generator: the limits whose lines it has yet to take,
\* the events it has yet to take, the rest of the body of the `for` loop,
\* the lines of the limits yet to be walked, and the passes the inner loop
\* makes before it walks a line or breaks
FrameVariant(h, f) ==
    IF f.phase = "ceil" THEN <<2, 0, 0, 0, 0>>
    ELSE IF f.phase = "floor" THEN <<1, 0, 0, 0, 0>>
    ELSE LET c == FrameContext(h, f)
             s == f.s[1]
         IN <<0,
              Len(c.events) + 1 - s.ei,
              IF s.pc = "event" THEN 2 ELSE IF s.pc = "inner" THEN 1 ELSE 0,
              (Len(c.ceil) - s.ci) + (Len(c.floor) - s.fi),
              IF s.pc # "inner" \/ ~s.again THEN 0
              ELSE IF ~s.overlapped /\ s.bound # "none" THEN 4
              ELSE IF ~s.overlapped THEN 2
              ELSE IF WouldRelease(c, s) THEN 3
              ELSE 1>>

RECURSIVE StackVariant(_, _, _)
StackVariant(h, stack, i) ==
    IF i > Len(stack) THEN <<>>
    ELSE FrameVariant(h, stack[i]) \o StackVariant(h, stack, i + 1)

\* the gauges yet to be determined, and what is left to each generator
Variant(h, stack) ==
    <<Cardinality({g \in Gauges : ~h.determination[g].valid})>>
        \o StackVariant(h, stack, 1)

\* C29: determine() terminates: every step of a generator of determine(),
\* in its loops and in the generators of its limits, leaves strictly less
\* to do in an order that has no infinite descent, so that the inner loop
\* ends for each event and the generator ends at the last event
C29_DetermineTerminates ==
    gen # <<>> =>
        With(GenStep(H, gen), LAMBDA r :
             LexLess(Variant(r.h, r.gen), Variant(H, gen)))

\* a generator that ends leaves what the read, taken as one step, leaves
RunIsTheRead ==
    [][\A i \in 1..Len(gen) :
          Len(gen') < i =>
              [H EXCEPT !.determination = HP.determination, !.events = HP.events]
                  = Determination(gen[i].from, gen[i].g).h]_vars

\* a read has run to its end without raising, for a gauge whose maximum is a
\* gauge: the inner loop walked lines of the maximum and yielded nodes
C29_Witness ==
    /\ gen = <<>>
    /\ last.op = "determination" /\ last.g = "G" /\ ~last.raised
    /\ max["G"].isGauge
    /\ Len(determination["B"].det) >= 3
    /\ Len(determination["G"].det) >= 4


(***************************************************************************)
(* The links of the limits                                                 *)
(***************************************************************************)
\* C30: in every reachable state B._links holds G if and only if B is the
\* max of G or the min of G
C30_LinksAreTheLimits ==
    \A g \in Gauges, b \in Gauges :
        g \in links[b] <=> (max[g] = GaugeLimit(b) \/ min[g] = GaugeLimit(b))

\* what holds in every state: a gauge linked to B has B as a limit
C30_LinkedHaveTheLimit ==
    \A g \in Gauges, b \in Gauges :
        g \in links[b] => (max[g] = GaugeLimit(b) \/ min[g] = GaugeLimit(b))


(***************************************************************************)
(* Gauges that stay away from their limits                                 *)
(***************************************************************************)
\* momenta a gauge is given before it is read
MaxFreeMomenta == 3

\* the momenta G is given
FreeMomenta ==
    <<Momentum(R(1), R(0), R(2)), Momentum(R(-1), R(1), R(3)),
      Momentum(R(1), NegInf, R(1)), Momentum(R(-1), R(0), inf),
      Momentum(R(1), R(2), inf)>>

\* B = Gauge(9, 10, 0, at=0) with at most one momentum, and
\* G = Gauge(vG, maxG, 0, at=atG) with its momenta
InitFree ==
    \E vG \in {R(3), R(4)}, maxG \in {Number(R(10)), GaugeLimit("B")},
       atG \in {R(0), R(2)},
       msB \in Multisets(<<Momentum(R(1), R(1), R(3))>>, 1),
       msG \in Multisets(FreeMomenta, MaxFreeMomenta) :
        StartsAs(AddAll(AddAll(NewHeap(R(9), Number(R(10)), Number(R(0)), R(0),
                                       vG, maxG, Number(R(0)), atG), "B", msB), "G", msG))

NextFree ==
    \/ \E g \in Gauges : ops < MaxReads /\ DoDetermination(g)
    \/ \E g \in Gauges, at \in ReadAts : ops < MaxReads /\ DoGet(g, at)

SpecFree == InitFree /\ [][NextFree]_vars

\* the length of the part of [since, until] of m that lies in [t0, t]
Overlap(m, t0, t) ==
    LET a == RMax(Since(m), t0)
        b == RMin(Until(m), t)
    IN IF RLt(a, b) THEN RSub(b, a) ELSE R(0)

\* the sum over the momenta ms of velocity * Overlap
RECURSIVE ClosedSum(_, _, _)
ClosedSum(ms, t0, t) ==
    IF ms = <<>> THEN R(0)
    ELSE RAdd(RMul(Velocity(Head(ms)), Overlap(Head(ms), t0, t)),
              ClosedSum(Tail(ms), t0, t))

\* the reference: the value at t of a gauge that meets no limit
Closed(h, g, t) ==
    RAdd(h.base[g][VALUE], ClosedSum(h.momenta[g], h.base[g][TIME], t))

\* the base time, and the finite since and until of the momenta later than it
ClosedTimes(h, g) ==
    {h.base[g][TIME]} \cup
    {x \in UNION {{Since(h.momenta[g][i]), Until(h.momenta[g][i])} :
                    i \in 1..Len(h.momenta[g])} :
        IsFinite(x) /\ RLt(h.base[g][TIME], x)}

\* the times of S in increasing order
RECURSIVE SortTimes(_)
SortTimes(S) ==
    IF S = {} THEN <<>>
    ELSE LET m == CHOOSE x \in S : \A y \in S : RLe(x, y)
         IN <<m>> \o SortTimes(S \ {m})

\* the reference determination
ClosedDet(h, g) ==
    LET ts == SortTimes(ClosedTimes(h, g))
    IN [i \in 1..Len(ts) |-> <<ts[i], Closed(h, g, ts[i])>>]

\* the permanent momenta cancel out: the reference is constant after the
\* last of its times
RestsAtLast(h, g) ==
    LET ts == SortTimes(ClosedTimes(h, g))
    IN Closed(h, g, RAdd(ts[Len(ts)], R(1))) = Closed(h, g, ts[Len(ts)])

\* the reference stays strictly between the limits: at the base, at every
\* time the reference or a limit turns, and so, all of them being
\* straight in between and constant after the last turn, at every time
NeverTouches(h, g) ==
    /\ \A b \in BoundsIn(h, g) : ~ReadOf(Uncached(h), b).raised
    /\ RestsAtLast(h, g)
    /\ \A t \in ClosedTimes(h, g) \cup
                UNION {{x \in Times(ReadOf(Uncached(h), b).det) : RLt(h.base[g][TIME], x)} :
                         b \in BoundsIn(h, g)} :
          /\ RLt(GetMin(Uncached(h), g, t).ret, Closed(h, g, t))
          /\ RLt(Closed(h, g, t), GetMax(Uncached(h), g, t).ret)

\* C31: when the trajectory never touches a limit, the determination is the
\* closed form: its vertices are the base point and the since and until of
\* the momenta later than the base time, and at every time t from the base
\* time on get(t) is the base value plus the sum over the momenta, each
\* counted as often as it is held, of velocity times the time it has acted
C31_FreeIsClosedForm ==
    \A g \in Gauges :
        NeverTouches(H, g) =>
            /\ ReadOf(Uncached(H), g) = [raised |-> FALSE, det |-> ClosedDet(H, g)]
            /\ \A t \in ReadAts \cup {R(5)} :
                  RLe(base[g][TIME], t) =>
                      Get(Uncached(H), g, t).ret = Closed(H, g, t)

\* G holds a momentum twice, and another one, meets no limit and has been read
C31_Witness ==
    /\ NeverTouches(H, "G")
    /\ last.op \in {"determination", "get"} /\ last.g = "G" /\ ~last.raised
    /\ \E i \in 1..Len(momenta["G"]), j \in 1..Len(momenta["G"]) :
          i # j /\ momenta["G"][i] = momenta["G"][j]
    /\ Len(Det("G")) >= 3


(***************************************************************************)
(* Events earlier than the base                                            *)
(***************************************************************************)
\* the gauge g of h holding the momenta ms instead of its own
WithMomenta(h, g, ms) ==
    AddAll([h EXCEPT !.momenta[g] = <<>>, !.events[g] = <<>>], g, ms)

\* s without its i-th element
DropAt(s, i) == SubSeq(s, 1, i - 1) \o SubSeq(s, i + 1, Len(s))

\* the i-th momentum of g ends at the base time of g or earlier, and the
\* read of g is the read of g without that momentum
PastIsNoMomentum(h, g, i) ==
    RLe(Until(h.momenta[g][i]), h.base[g][TIME]) =>
        ReadOf(Uncached(h), g)
            = ReadOf(Uncached(WithMomenta(h, g, DropAt(h.momenta[g], i))), g)

\* the i-th momentum of g starts before the base time of g and ends after
\* it, and the read of g is the read of g with that momentum starting at the
\* base time
StartedIsStarting(h, g, i) ==
    LET m == h.momenta[g][i]
        t0 == h.base[g][TIME]
    IN (RLt(Since(m), t0) /\ RLt(t0, Until(m))) =>
           ReadOf(Uncached(h), g)
               = ReadOf(Uncached(WithMomenta(h, g,
                     [h.momenta[g] EXCEPT ![i] = Momentum(Velocity(m), t0, Until(m))])), g)

\* C32: events earlier than the base time are applied at the base time: a
\* momentum with until <= base time does not change the determination, and
\* one with since < base time < until acts as the same momentum with
\* since = base time
C32_EarlierEventsAtBase ==
    \A g \in Gauges : \A i \in 1..Len(momenta[g]) :
        PastIsNoMomentum(H, g, i) /\ StartedIsStarting(H, g, i)

\* what holds: the same, for gauges that hold, and are bound by gauges that
\* hold, momenta with since < until only
C32_EarlierValidEventsAtBase ==
    \A g \in Gauges :
        (\A x \in {g} \cup BoundsOf(g) : ValidMomenta(H, x)) =>
            \A i \in 1..Len(momenta[g]) :
                PastIsNoMomentum(H, g, i) /\ StartedIsStarting(H, g, i)


(***************************************************************************)
(* The order of the momenta                                                *)
(***************************************************************************)
\* the orders in which n momenta can be added
Orders(n) == {f \in [1..n -> 1..n] : \A i \in 1..n, j \in 1..n : i # j => f[i] # f[j]}

\* the momenta g holds, in the order f
InOrder(h, g, f) == [i \in 1..Len(h.momenta[g]) |-> h.momenta[g][f[i]]]

\* C33: the determination depends only on the base, the limits and the
\* multiset of the momenta: it is the determination of a gauge of that base
\* and those limits to which the momenta held are added, in any order
C33_OnlyTheMultisetCounts ==
    \A g \in Gauges : \A f \in Orders(Len(momenta[g])) :
        ReadOf(Uncached(H), g) = ReadOf(Uncached(WithMomenta(H, g, InOrder(H, g, f))), g)

\* what holds: the momenta added in any order leave the same events and the
\* same determination (the momenta of equal until are held in the order in
\* which they were added)
C33_AnyOrderOfAdding ==
    \A g \in Gauges : \A f \in Orders(Len(momenta[g])) :
        /\ WithMomenta(H, g, InOrder(H, g, f)).events
               = WithMomenta(H, g, momenta[g]).events
        /\ ReadOf(Uncached(WithMomenta(H, g, InOrder(H, g, f))), g)
               = ReadOf(Uncached(WithMomenta(H, g, momenta[g])), g)


(***************************************************************************)
(* Following a limit                                                       *)
(***************************************************************************)
\* the slope of det from t on: 0 before its first vertex and from its last
RightSlope(det, t) ==
    IF VerticesUpTo(det, t) = 0 THEN R(0) ELSE SlopeFrom(det, VerticesUpTo(det, t))

\* the slope of a limit from t on
LimitSlope(h, limit, t) ==
    IF limit.isGauge THEN RightSlope(ReadOf(h, limit.gauge).det, t) ELSE R(0)

\* the sum of the velocities of the momenta of g that act from t on
ActiveSum(h, g, t) ==
    SumSeq([i \in 1..Len(h.momenta[g]) |->
               IF /\ RLe(RMax(Since(h.momenta[g][i]), h.base[g][TIME]), t)
                  /\ RLt(t, Until(h.momenta[g][i]))
               THEN Velocity(h.momenta[g][i]) ELSE R(0)])

\* the times from the base time of g on at which g, a limit of g or the
\* sum of the velocities of g turns
TurnsIn(h, g) ==
    {t \in Times(ReadOf(h, g).det)
           \cup UNION {Times(ReadOf(h, b).det) : b \in BoundsIn(h, g)}
           \cup UNION {{Since(h.momenta[g][i]), Until(h.momenta[g][i])} :
                         i \in 1..Len(h.momenta[g])} :
        IsFinite(t) /\ RLe(h.base[g][TIME], t)}

\* the times between two turns at which g crosses the limit
MeetsIn(h, g, limit) ==
    LET ts == SortTimes(TurnsIn(h, g))
        d(t) == RSub(Get(h, g, t).ret, GetLimit(h, limit, t).ret)
    IN {RAdd(ts[i], RMul(RSub(ts[i + 1], ts[i]),
                         RDiv(d(ts[i]), RSub(d(ts[i]), d(ts[i + 1]))))) :
           i \in {j \in 1..(Len(ts) - 1) :
                     \/ RLt(d(ts[j]), R(0)) /\ RLt(R(0), d(ts[j + 1]))
                     \/ RLt(R(0), d(ts[j])) /\ RLt(d(ts[j + 1]), R(0))}}

\* the times at which g is to be looked at: its turns and its crossings
TimesOf(h, g) ==
    TurnsIn(h, g) \cup MeetsIn(h, g, h.max[g]) \cup MeetsIn(h, g, h.min[g])

\* at t the gauge g is on the limit, which is apart from the other limit:
\* it goes on with the limit while the sum of its velocities does not lead
\* away from it, and with that sum otherwise
FollowsFrom(h, g, limit, cmp, t) ==
    (/\ Get(h, g, t).ret = GetLimit(h, limit, t).ret
     /\ RLt(GetMin(h, g, t).ret, GetMax(h, g, t).ret)) =>
        RightSlope(ReadOf(h, g).det, t)
            = IF Cmp(cmp, ActiveSum(h, g, t), LimitSlope(h, limit, t))
              THEN ActiveSum(h, g, t) ELSE LimitSlope(h, limit, t)

\* g and the gauges of its limits can be read
Readable(h, g) == \A x \in {g} \cup BoundsIn(h, g) : ~ReadOf(h, x).raised

\* the base value of g is on none of its limits
StartsOff(h, g) ==
    /\ h.base[g][VALUE] # GetMax(h, g, h.base[g][TIME]).ret
    /\ h.base[g][VALUE] # GetMin(h, g, h.base[g][TIME]).ret

\* C34: once the trajectory meets the ceiling it coincides with it for as
\* long as the sum of the active velocities is not less than the slope of
\* the ceiling, and leaves it, with that sum as its slope, as soon as the sum
\* is less; the same for the floor with greater.  Stated for the gauges
\* whose base value is on none of their limits, which meet them later
C34_FollowsItsLimits ==
    \A g \in Gauges :
        (Readable(Uncached(H), g) /\ StartsOff(Uncached(H), g)) =>
            \A t \in TimesOf(Uncached(H), g) :
                /\ FollowsFrom(Uncached(H), g, max[g], "lt", t)
                /\ FollowsFrom(Uncached(H), g, min[g], "gt", t)

\* what holds: the same for the gauges whose limits are numbers and whose
\* base value is not outside them
C34_FollowsNumberLimits ==
    \A g \in Gauges :
        (/\ Readable(Uncached(H), g) /\ BoundsOf(g) = {}
         /\ Within(min[g].number, base[g][VALUE], max[g].number)) =>
            \A t \in TimesOf(Uncached(H), g) :
                /\ FollowsFrom(Uncached(H), g, max[g], "lt", t)
                /\ FollowsFrom(Uncached(H), g, min[g], "gt", t)


(***************************************************************************)
(* Rebasing and the future                                                 *)
(***************************************************************************)
\* from at on, get of g in hp is get of g in h plus delta: at at and at every
\* vertex of the two determinations, which are straight in between
SameFuture(h, hp, g, at, delta) ==
    /\ ~ReadOf(h, g).raised /\ ~ReadOf(hp, g).raised
    /\ \A t \in {at} \cup Times(ReadOf(h, g).det) \cup Times(ReadOf(hp, g).det) :
          RLe(at, t) => Get(hp, g, t).ret = RAdd(Get(h, g, t).ret, delta)

\* from at on, g is strictly between its limits
AwayFrom(h, g, at) ==
    /\ Readable(h, g)
    /\ \A t \in {at} \cup TurnsIn(h, g) :
          RLe(at, t) =>
              /\ RLt(GetMin(h, g, t).ret, Get(h, g, t).ret)
              /\ RLt(Get(h, g, t).ret, GetMax(h, g, t).ret)

\* forget_past(at=t) has returned, no value given
RebasedInPlace(call) == call.op = "forget_past" /\ ~call.given /\ ~call.raised

\* incr(delta, at=t) without clamp has returned, and the gauge is away from
\* its limits from t on, before and after the call
MovedFreely(h, hp, call) ==
    /\ call.op = "incr" /\ ~call.clamp /\ ~call.raised
    /\ AwayFrom(h, call.g, call.at) /\ AwayFrom(hp, call.g, call.at)

\* C35: rebasing to the current value does not change the future: after
\* forget_past(at=t) with no value given get(t') is what it was before the
\* call for every t' >= t, and after an unclamped incr(delta, at=t) of a
\* gauge that stays away from its limits it is the old get(t') + delta
C35_RebasingKeepsTheFuture ==
    [][/\ RebasedInPlace(last') => SameFuture(H, HP, last'.g, last'.at, R(0))
       /\ MovedFreely(H, HP, last') => SameFuture(H, HP, last'.g, last'.at, last'.x)]_vars

\* what holds: the same for the gauges whose limits are numbers and whose
\* base value is not outside them, at times not earlier than the base time
C35_RebasingKeepsTheFutureInNumbers ==
    [][(/\ BoundsOf(last'.g) = {} /\ RLe(base[last'.g][TIME], last'.at)
        /\ Within(min[last'.g].number, base[last'.g][VALUE],
                  max[last'.g].number)) =>
          /\ RebasedInPlace(last') => SameFuture(H, HP, last'.g, last'.at, R(0))
          /\ MovedFreely(H, HP, last') =>
                 SameFuture(H, HP, last'.g, last'.at, last'.x)]_vars

(***************************************************************************)
(* set_max and set_min without clamp                                       *)
(***************************************************************************)
\* set_max or set_min of g has been called without clamp
LimitSet(call) == call.op \in {"set_max", "set_min"} /\ ~call.clamp

\* the call has set the limit it names and no other
OnlyTheLimit(call) ==
    /\ \A x \in Gauges \ {call.g} : max'[x] = max[x] /\ min'[x] = min[x]
    /\ IF call.op = "set_max"
       THEN max'[call.g] = call.limit /\ min'[call.g] = min[call.g]
       ELSE min'[call.g] = call.limit /\ max'[call.g] = max[call.g]

NextQuery ==
    \/ \E g \in Gauges : ops < MaxReadOps /\ DoDetermination(g)
    \/ \E g \in Gauges, at \in ReadAts : ops < MaxReadOps /\ DoGet(g, at)
    \/ \E g \in Gauges, at \in ReadAts : ops < MaxReadOps /\ DoVelocity(g, at)
    \/ \E g \in Gauges, value \in Goals : ops < MaxReadOps /\ DoWhenever(g, value)
    \/ \E g \in Gauges, value \in Goals, after \in Afters :
          ops < MaxReadOps /\ DoWhen(g, value, after)

SpecQuery == InitRead /\ [][NextQuery]_vars

IsRead(call) == call.op \in {"determination", "get", "velocity", "whenever", "when"}

\* the read that call names, made on h
Query(h, call) ==
    CASE call.op = "determination" -> Determination(h, call.g)
      [] call.op = "get" -> Get(h, call.g, call.at)
      [] call.op = "velocity" -> VelocityAt(h, call.g, call.at)
      [] call.op = "whenever" -> Whenever(h, call.g, call.x)
      [] call.op = "when" -> When(h, call.g, call.x, call.after)

\* what the caller of the read sees: an exception, or what is returned
Answer(h, call) ==
    With(Query(h, call), LAMBDA r :
    IF r.raised THEN [raised |-> TRUE, ret |-> <<>>]
    ELSE [raised |-> FALSE,
          ret |-> IF call.op = "determination" THEN <<r.h.determination[call.g].det>>
                  ELSE <<r.ret>>])

\* the reads one can make
Queries ==
    {[NoCall EXCEPT !.op = "determination", !.g = g] : g \in Gauges}
    \cup {[NoCall EXCEPT !.op = op, !.g = g, !.at = at] :
             op \in {"get", "velocity"}, g \in Gauges, at \in ReadAts}
    \cup {[NoCall EXCEPT !.op = "whenever", !.g = g, !.x = value] :
             g \in Gauges, value \in Goals}
    \cup {[NoCall EXCEPT !.op = "when", !.g = g, !.x = value, !.after = after] :
             g \in Gauges, value \in Goals, after \in Afters}

\* a read has left base, momenta, max and min as they were
ReadKeeps == base' = base /\ momenta' = momenta /\ max' = max /\ min' = min

\* C37: reads (determination, get, velocity, when, whenever) leave base,
\* momenta, max and min unchanged and are repeatable: after a read, the same
\* read gives what it gave, whether the first one found the determination
\* cached or had to compute it
C37_ReadsKeepAndRepeat ==
    [][IsRead(last') =>
          /\ ReadKeeps
          /\ Answer(HP, last') = Answer(H, last')]_vars

\* what holds: reads leave base, momenta, max and min unchanged, and a read
\* that has not raised leaves every read with the answer it had
C37_ReadsKeepAndGoodReadsRepeat ==
    [][IsRead(last') =>
          /\ ReadKeeps
          /\ ~last'.raised => \A q \in Queries : Answer(HP, q) = Answer(H, q)]_vars


(***************************************************************************)
(* The end of the determination                                            *)
(***************************************************************************)
\* the local variables of determine() of g at its end, with the
\* determinations of the limits of g computed afresh
EndOf(h, g) ==
    LET maxdet == IF h.max[g].isGauge THEN ReadOf(h, h.max[g].gauge).det ELSE <<R(0)>>
        mindet == IF h.min[g].isGauge THEN ReadOf(h, h.min[g].gauge).det ELSE <<R(0)>>
        c == [t0 |-> h.base[g][TIME], events |-> WalkEvents(h, g),
              ceil |-> WalkLines(h.max[g].isGauge, h.max[g].number, maxdet,
                                 h.base[g][TIME]),
              floor |-> WalkLines(h.min[g].isGauge, h.min[g].number, mindet,
                                  h.base[g][TIME])]
    IN DetermineRun(c, DetermineStart(c, h.base[g][VALUE]))

\* every vertex of det has a finite time and a finite value
FiniteVertices(det) ==
    \A i \in 1..Len(det) : IsFinite(det[i][TIME]) /\ IsFinite(det[i][VALUE])

\* g does not move after the last vertex of its determination: determine()
\* ends at that vertex, with the velocity 0 or on a limit, and get returns
\* the value of the vertex later
RestsAtEnd(h, g) ==
    LET det == ReadOf(h, g).det
        end == EndOf(h, g)
        at == det[Len(det)][TIME]
    IN /\ det # <<>>
       /\ end.pc = "done"
       /\ end.since = at /\ end.value = det[Len(det)][VALUE]
       /\ \/ end.velocity = R(0)
          \/ end.value = GetMax(h, g, at).ret
          \/ end.value = GetMin(h, g, at).ret
       /\ Get(h, g, RAdd(at, R(1))).ret = end.value

\* C38: the limits being finite, every vertex of the determination has a
\* finite time and a finite value, also when momenta are permanent, and the
\* trajectory is constant after the last vertex
C38_EndsFiniteAndAtRest ==
    \A g \in Gauges :
        Readable(Uncached(H), g) =>
            /\ FiniteVertices(ReadOf(Uncached(H), g).det)
            /\ RestsAtEnd(Uncached(H), g)

\* a gauge that holds a permanent momentum ends on its max
C38_Witness ==
    /\ Readable(Uncached(H), "G")
    /\ \E i \in 1..Len(momenta["G"]) : Until(momenta["G"][i]) = inf
    /\ LET det == ReadOf(Uncached(H), "G").det
       IN /\ Len(det) >= 2
          /\ det[Len(det)][VALUE] = GetMax(Uncached(H), "G", det[Len(det)][TIME]).ret
          /\ det[Len(det) - 1][VALUE] # det[Len(det)][VALUE]


(***************************************************************************)
(* Line.intersect on lines of every kind                                   *)
(***************************************************************************)
\* the times and the values of the lines go up to these
MaxLineTime == 2

MaxLineValue == 2

\* calls per behaviour
MaxIntersects == 2

\* the time ranges of the lines: `since` is finite and earlier than `until`
LineRanges ==
    {<<R(s), R(u)>> : s \in 0..MaxLineTime, u \in 1..MaxLineTime} \cup
    {<<R(s), inf>> : s \in 0..MaxLineTime}

LineValues == {R(v) : v \in 0..MaxLineValue}

\* the lines determine() makes: Horizon and Segment of walk_lines, and Ray
LineSet ==
    {Horizon(r[1], r[2], v) : r \in {x \in LineRanges : RLt(x[1], x[2])},
                              v \in LineValues}
    \cup {Ray(r[1], r[2], v, w) : r \in {x \in LineRanges : RLt(x[1], x[2])},
                                  v \in LineValues, w \in {R(-1), R(0), R(1)}}
    \cup {Segment(r[1], r[2], v, f) :
             r \in {x \in LineRanges : RLt(x[1], x[2]) /\ IsFinite(x[2])},
             v \in LineValues, f \in LineValues}

\* two lines, and the gauges B = Gauge(1, 4, 0, at=0), G = Gauge(1, 4, 0, at=0)
InitLines ==
    \E a \in LineSet, b \in LineSet :
        LET h == NewHeap(R(1), Number(R(4)), Number(R(0)), R(0),
                         R(1), Number(R(4)), Number(R(0)), R(0))
        IN /\ base = h.base /\ momenta = h.momenta /\ events = h.events
           /\ max = h.max /\ min = h.min /\ links = h.links
           /\ determination = h.determination
           /\ last = NoCall /\ ops = 0 /\ gen = <<>>
           /\ lines = <<a, b>>

\* lines[self].intersect(lines[line])
DoIntersect(self, line) ==
    /\ ops < MaxIntersects
    /\ LET p == Intersect(lines[self], lines[line])
       IN last' = [NoCall EXCEPT !.op = "intersect", !.self = self, !.line = line,
                                 !.raised = p = NoPoint, !.ret = p]
    /\ ops' = ops + 1
    /\ UNCHANGED <<base, momenta, events, max, min, links, determination, gen, lines>>

NextLines == \E self \in 1..2, line \in 1..2 : DoIntersect(self, line)

SpecLines == InitLines /\ [][NextLines]_vars

\* the value at t of the straight line through the start of l
Along(l, t) == RAdd(l.value, RMul(l.velocity, RSub(t, l.since)))

\* the lines a and b, of different velocities, cross at a time of lo..hi:
\* their distance is 0 at lo, or changes its sign between lo and hi
CrossIn(a, b, lo, hi) ==
    LET d(t) == RSub(Along(a, t), Along(b, t))
        slope == RSub(a.velocity, b.velocity)
    IN /\ RLe(lo, hi)
       /\ IF hi = inf
          THEN d(lo) = R(0) \/ RLt(RMul(d(lo), slope), R(0))
          ELSE RLe(RMul(d(lo), d(hi)), R(0))

=============================================================================
